---- MODULE Spec2Model ----
(***************************************************************************)
(* Verification model of the octopus core: the read manager                *)
(* (src/src/io/read/read_manager.cpp), the de Bruijn assembler and the     *)
(* haplotype generator (src/src/core/tools/vargen/utils/assembler.cpp).    *)
(***************************************************************************)
EXTENDS Integers, Sequences, FiniteSets, TLC

(***************************************************************************)
(* Bounds of the model.                                                    *)
(***************************************************************************)
NumPaths == 4
MaxFileSize == 4
MaxBudget == 4
NumThreads == 2
NumSamples == 2
NumPositions == 4
MaxReads == 1

Paths == 1..NumPaths
Threads == 1..NumThreads
Samples == 1..NumSamples
Positions == 0..(NumPositions - 1)

NoThread == {}
NoCarry == [set |-> FALSE, count |-> 0]

VARIABLES
    file_size,        \* boost::filesystem::file_size of every input path
    max_open_files_,  \* ReadManager::max_open_files_
    open_readers_,    \* ReadManager::open_readers_, the keys of the map in map order
    closed_readers_,  \* ReadManager::closed_readers_
    mutex_,           \* ReadManager::mutex_, the set of threads holding it (at most one)
    pc,               \* position of every thread inside a query
    args,             \* arguments of the query a thread runs
    reader_paths,     \* local reader_paths of the slow path
    reader_itr,       \* local reader_itr, an index into reader_paths (Len + 1 is end)
    acc,              \* local result / position_tracker of the query
    n_close,          \* readers open_readers still has to close
    open_idx,         \* next element of the range open_readers still has to open
    entry,            \* what open_readers saw on entry (history of the current call)
    carry             \* count_reads result kept by a caller that then calls fetch_reads

VARIABLES
    assembler,        \* the Assembler object: k_, graph_, reference_kmers_, reference_head_position_
    asm_call,         \* the calls made on the assembler so far and how the last one ended
    extraction        \* the locals of the extract_variants call in progress, and its result

VARIABLES
    generator,        \* the HaplotypeGenerator::Builder, then the HaplotypeGenerator it built
    gen_call          \* the calls made on the builder and the generator, and how the last ended

VARIABLES
    swap_call         \* the two ReadManager objects given to swap, and the swaps made so far

genvars == <<generator, gen_call>>

\* The variables of the other components, which the read manager leaves alone.
nonrm == <<assembler, asm_call, extraction, generator, gen_call, swap_call>>

rmvars == <<file_size, max_open_files_, open_readers_, closed_readers_, mutex_,
            pc, args, reader_paths, reader_itr, acc, n_close, open_idx, entry, carry>>

(***************************************************************************)
(* Generic helpers on sequences.                                           *)
(***************************************************************************)
Min(a, b) == IF a <= b THEN a ELSE b
Max(a, b) == IF a >= b THEN a ELSE b

Range(s) == {s[i] : i \in DOMAIN s}

\* The element of a singleton set. A value bound by a set constructor is computed
\* once, which keeps the evaluation of a chain of calls linear in its length.
TheOne(S) == CHOOSE x \in S : TRUE

RECURSIVE SumFrom(_, _)
SumFrom(s, i) == IF i > Len(s) THEN 0 ELSE s[i] + SumFrom(s, i + 1)

SumSeq(s) == TheOne({SumFrom(x, 1) : x \in {s}})

\* The elements of a set of positions in ascending order.
RECURSIVE SortedFrom(_, _)
SortedFrom(S, x) ==
    IF x >= NumPositions THEN <<>>
    ELSE (IF x \in S THEN <<x>> ELSE <<>>) \o SortedFrom(S, x + 1)

SetToSortedSeq(S) == TheOne({SortedFrom(x, 0) : x \in {S}})

IsSortedSeq(s) == \A i \in 1..(Len(s) - 1) : s[i] <= s[i + 1]

(***************************************************************************)
(* The assembler before its first call.                                    *)
(***************************************************************************)
\* Assembler::Assembler(kmer_size). graph_ is the vertex list and the edge list of
\* the adjacency list, both in insertion order; vertex_cache_ maps the k-mer of
\* every vertex of the vertex list to it, so a vertex is named by its k-mer.
Assembler(kmer_size) ==
    [k_ |-> kmer_size,
     vertices |-> <<>>,
     edges |-> <<>>,
     num_edges_added |-> 0,
     reference_kmers_ |-> <<>>,
     reference_head_position_ |-> 0]

\* What the last prune call was given and how it went: its min_weight, how it
\* ended, why it returned false, and the pruning steps after which the reference
\* was found not to be a unique path.
NoPrune == [min_weight |-> 0, result |-> "none", cause |-> "none", failed |-> {}]

\* What a caller holds for the assembler: a reference sequence and copies of a
\* read, and how many of the copies insert_read has been given.
NoInput == [reference |-> <<>>, read |-> <<>>, copies |-> 0, inserted |-> 0]

NoCall == [n |-> 0, op |-> "none", outcome |-> "none", reference_inserted |-> FALSE,
           prune |-> NoPrune, input |-> NoInput]

\* The steps of a call of extract_variants are counted up to MaxSteps.
MaxSteps == 200

\* The locals of extract_variants and of extract_k_highest_scoring_bubble_paths;
\* blocked_edge is the descriptor of the blocked edge, 0 for boost::none; steps
\* counts the steps the call has made.
NoExtraction ==
    [pc |-> "idle", max |-> 0, k |-> 0, num_remaining_alt_kmers |-> 0,
     blocked_edge |-> 0, max_blockings |-> 0, result |-> <<>>,
     predecessors |-> <<>>, dominator_tree |-> <<>>,
     alt |-> <<>>, ref |-> <<>>, rhs_kmer_count |-> 0,
     returned |-> <<>>, thrown |-> "none", assert_failed |-> FALSE, steps |-> 0]

\* No assembler call is made while the read manager runs.
AssemblerIdle ==
    /\ assembler = Assembler(0)
    /\ asm_call = NoCall
    /\ extraction = NoExtraction

\* No generator is built while the read manager or the assembler runs.
NoGenerator ==
    [stage |-> "none",
     policies_ |-> [lagging |-> "none", target |-> 0, holdout |-> 0, overflow |-> 0,
                    max_holdout_depth |-> 0],
     tree_ |-> {}, alleles_ |-> {},
     active_region_ |-> [begin |-> 0, end |-> 0], next_active_region_ |-> {},
     rightmost_allele_ |-> [begin |-> 0, end |-> 0],
     active_holdouts_ |-> <<>>, holdout_region_ |-> {}]

NoGenCall ==
    [setters |-> 0, calls |-> 0, op |-> "none", outcome |-> "none", path |-> "none",
     size |-> 0, region |-> {}, peeked |-> {}]

GeneratorIdle ==
    /\ generator = NoGenerator
    /\ gen_call = NoGenCall

\* No ReadManager has been given to swap.
NoSwapCall == [n |-> 0, lhs |-> <<>>, rhs |-> <<>>, before |-> <<>>]

\* All orders (sequences without repetition) of the elements of a finite set.
RECURSIVE Orders(_)
Orders(S) ==
    IF S = {} THEN {<<>>}
    ELSE UNION {{<<x>> \o o : o \in Orders(S \ {x})} : x \in S}

(***************************************************************************)
(* The contents of the read files: the samples of every file, the read     *)
(* positions per sample, and the mapped region its index reports.          *)
(***************************************************************************)
ReaderSamples(p) == IF p % 3 = 0 THEN Samples \cap {1, 2} ELSE {((p - 1) % 3) + 1}

ReaderPositions(p, s) ==
    IF s \notin ReaderSamples(p) THEN {}
    ELSE {x \in Positions : (x < p /\ (x + s) % 2 = 0) \/ x = p % NumPositions}

Region(b, e) == [begin |-> b, end |-> e]

NoArgs == [kind |-> "none", samples |-> {}, region |-> Region(0, 0), max_reads |-> 0]

is_empty_region(r) == r.begin = r.end

overlaps(a, b) == a.begin < b.end /\ b.begin < a.end

InRegion(x, r) == r.begin <= x /\ x < r.end

\* ReadReader::mapped_regions
mapped_regions(p) ==
    LET all == UNION {ReaderPositions(p, s) : s \in Samples}
    IN IF all = {} THEN {}
       ELSE {Region(CHOOSE x \in all : \A y \in all : x <= y,
                    (CHOOSE x \in all : \A y \in all : x >= y) + 1)}

\* ReadReader::fetch_reads(sample, region): the reads of one sample, sorted
ReaderFetchSample(p, s, region) ==
    SetToSortedSeq({x \in ReaderPositions(p, s) : InRegion(x, region)})

\* ReadReader::fetch_reads(samples, region)
ReaderFetchReads(p, samples, region) ==
    [s \in samples |-> ReaderFetchSample(p, s, region)]

\* ReadReader::count_reads(samples, region)
ReaderCountReads(p, samples, region) ==
    SumSeq([i \in 1..NumSamples |->
              IF i \in samples THEN Len(ReaderFetchSample(p, i, region)) ELSE 0])

\* ReadReader::has_reads(samples, region)
ReaderHasReads(p, samples, region) == ReaderCountReads(p, samples, region) > 0

(***************************************************************************)
(* ReadManager: the map of open readers, ordered by FileSizeCompare.       *)
(***************************************************************************)
\* ReadManager::FileSizeCompare::operator()
FileSizeCompare(lhs, rhs) == file_size[lhs] < file_size[rhs]

\* Two keys are the same key of the map when neither is ordered before the other.
EquivalentKeys(a, b) == ~FileSizeCompare(a, b) /\ ~FileSizeCompare(b, a)

\* std::map::count
MapCount(m, p) == Cardinality({i \in DOMAIN m : EquivalentKeys(m[i], p)})

\* std::map::emplace: no insertion when an equivalent key is present
MapEmplace(m, p) ==
    IF MapCount(m, p) > 0 THEN m
    ELSE LET k == Cardinality({i \in DOMAIN m : FileSizeCompare(m[i], p)})
         IN SubSeq(m, 1, k) \o <<p>> \o SubSeq(m, k + 1, Len(m))

\* std::map::erase(key)
MapErase(m, p) == SelectSeq(m, LAMBDA x : ~EquivalentKeys(x, p))

\* std::map::at: the reader stored under the key equivalent to p
MapAt(m, p) == m[CHOOSE i \in DOMAIN m : EquivalentKeys(m[i], p)]

RM(open, closed) == [open |-> open, closed |-> closed]

\* ReadManager::num_files
num_files(rm) == Cardinality(rm.closed) + Len(rm.open)

\* ReadManager::num_files_ (set once by the constructor)
num_files_ == NumPaths

\* ReadManager::all_readers_are_open
all_readers_are_open == num_files_ <= max_open_files_

\* ReadManager::is_open
is_open(rm, p) == MapCount(rm.open, p) = 1

\* ReadManager::num_open_readers
num_open_readers(rm) == Len(rm.open)

\* ReadManager::num_reader_spaces
num_reader_spaces(rm) == max_open_files_ - num_open_readers(rm)

\* close_reader without the open_readers_.erase(path)
close_reader_without_erase(rm, p) == RM(rm.open, rm.closed \cup {p})

\* ReadManager::close_reader
close_reader(rm, p) == RM(MapErase(rm.open, p), rm.closed \cup {p})

\* ReadManager::choose_reader_to_close
choose_reader_to_close(rm) == rm.open[1]

\* ReadManager::open_reader
open_reader(rm, p) ==
    LET r1 == IF num_open_readers(rm) = max_open_files_
              THEN close_reader(rm, choose_reader_to_close(rm))
              ELSE rm
    IN RM(MapEmplace(r1.open, p), r1.closed \ {p})

\* ReadManager::close_readers
RECURSIVE close_readers(_, _)
close_readers(rm, n) ==
    IF n = 0 THEN rm
    ELSE TheOne({close_readers(closed, n - 1) :
                    closed \in {close_reader(rm, choose_reader_to_close(rm))}})

\* std::for_each(first, last, open_reader) over a sequence of paths
RECURSIVE open_each(_, _)
open_each(rm, ps) ==
    IF ps = <<>> THEN rm
    ELSE TheOne({open_each(opened, Tail(ps)) : opened \in {open_reader(rm, Head(ps))}})

\* What ReadManager::open_readers(first, last) decides on entry for a range of
\* `requested` paths: how many readers to close and where the opened slice starts
\* (as an offset from first).
open_readers_plan(rm, requested) ==
    LET available == num_reader_spaces(rm)
    IN IF requested = 0 THEN [to_close |-> 0, first_open |-> 0]
       ELSE IF requested <= available THEN [to_close |-> 0, first_open |-> 0]
       ELSE LET n == Min(num_open_readers(rm), requested - available)
            IN [to_close |-> n, first_open |-> requested - (available + n)]

\* ReadManager::open_readers as one call
open_readers(rm, ps) ==
    LET plan == open_readers_plan(rm, Len(ps))
        r1 == close_readers(rm, plan.to_close)
    IN open_each(r1, SubSeq(ps, plan.first_open + 1, Len(ps)))

\* ReadManager::could_reader_contain_region
could_reader_contain_region(p, region) ==
    \E r \in mapped_regions(p) : overlaps(r, region)

\* ReadManager::get_reader_paths_containing_samples (as a set: the order of the
\* vector is that of an unordered_set)
get_reader_paths_containing_samples(samples) ==
    {p \in Paths : ReaderSamples(p) \cap samples # {}}

\* ReadManager::get_possible_reader_paths(samples, region)
get_possible_reader_paths(samples, region) ==
    {p \in get_reader_paths_containing_samples(samples) :
        could_reader_contain_region(p, region)}

\* ReadManager::partition_open: the closed paths first, in any order, then the open
\* ones, in any order; the result is the set of (vector, iterator) pairs.
partition_open(rm, candidates) ==
    {[paths |-> c \o o, itr |-> Len(c) + 1] :
        c \in Orders({p \in candidates : ~is_open(rm, p)}),
        o \in Orders({p \in candidates : is_open(rm, p)})}

\* ReadManager::open_initial_files: nth_element puts the num_files_to_open smallest
\* files first (any of them when sizes tie), open_readers opens that prefix.
open_initial_files(rm) ==
    LET num_files_to_open == Min(max_open_files_, Cardinality(rm.closed))
    IN {open_readers(rm, SubSeq(o, 1, num_files_to_open)) :
          o \in {f \in Orders(rm.closed) :
                   \A i, j \in DOMAIN f :
                      (i <= num_files_to_open /\ j > num_files_to_open)
                          => ~FileSizeCompare(f[j], f[i])}}

(***************************************************************************)
(* Queries.                                                                *)
(***************************************************************************)
QuerySamples == (SUBSET Samples) \ {{}}

QueryRegions == {Region(NumPositions \div 2, NumPositions), Region(0, NumPositions)}

QueryArgs ==
    {[kind |-> k, samples |-> s, region |-> r, max_reads |-> 0] :
        k \in {"has_reads", "count_reads", "fetch_reads"},
        s \in QuerySamples, r \in QueryRegions}
    \cup
    {[kind |-> "find_covered_subregion", samples |-> s, region |-> r, max_reads |-> m] :
        s \in QuerySamples, r \in QueryRegions, m \in 1..MaxReads}

\* std::inplace_merge of two sorted ranges (a stable merge), from a[i] and b[j] on
RECURSIVE MergeFrom(_, _, _, _)
MergeFrom(a, b, i, j) ==
    IF i > Len(a) THEN SubSeq(b, j, Len(b))
    ELSE IF j > Len(b) THEN SubSeq(a, i, Len(a))
    ELSE IF b[j] < a[i] THEN <<b[j]>> \o MergeFrom(a, b, i, j + 1)
    ELSE <<a[i]>> \o MergeFrom(a, b, i + 1, j)

Merge(a, b) == TheOne({MergeFrom(x, y, 1, 1) : x \in {a}, y \in {b}})

\* merge_insert(src, dst)
merge_insert(src, dst) == Merge(dst, src)

\* ReadReader::extract_read_positions(samples, region, max)
extract_read_positions(p, samples, region, max) ==
    LET RECURSIVE Pool(_)
        Pool(i) == IF i > NumSamples THEN <<>>
                   ELSE Merge(IF i \in samples THEN ReaderFetchSample(p, i, region) ELSE <<>>,
                              Pool(i + 1))
    IN TheOne({SubSeq(all, 1, Min(max, Len(all))) : all \in {Pool(1)}})

\* tail_position(region)
tail_position(region) == region.end - 1

\* The position tracker after one reader of find_covered_subregion: the reader's
\* positions are added, and the tail position once per added_tail_position flag.
TrackPositions(st, positions, a) ==
    IF Len(positions) <= a.max_reads /\ ~st.added_tail_position
    THEN [tracker |-> Merge(Merge(st.tracker, positions), <<tail_position(a.region)>>),
          added_tail_position |-> TRUE]
    ELSE [tracker |-> Merge(st.tracker, positions),
          added_tail_position |-> st.added_tail_position]

TrackReader(st, p, a) ==
    TheOne({TrackPositions(st, positions, a) :
              positions \in {extract_read_positions(p, a.samples, a.region, a.max_reads + 1)}})

RECURSIVE TrackReaders(_, _, _)
TrackReaders(st, readers, a) ==
    IF readers = <<>> THEN st
    ELSE TheOne({TrackReaders(st1, Tail(readers), a) :
                    st1 \in {TrackReader(st, Head(readers), a)}})

\* CoverageTracker::encompassing_region
encompassing_region(tracker) == Region(tracker[1], tracker[Len(tracker)] + 1)

\* CoverageTracker::total_coverage(region)
total_coverage(tracker, region) ==
    Cardinality({i \in DOMAIN tracker : InRegion(tracker[i], region)})

\* max_head_region(position_tracker, region)
max_head_region2(tracker, region) ==
    IF tracker = <<>> THEN region
    ELSE LET tr == encompassing_region(tracker)
         IN IF tr.end <= region.begin \/ region.end < tr.end
            THEN region
            ELSE Region(region.begin, tr.end)

\* max_head_region(position_tracker, region, max_coverage)
max_head_region(tracker, region, max_coverage) ==
    IF tracker = <<>> THEN region
    ELSE LET max_region == max_head_region2(tracker, region)
         IN IF total_coverage(tracker, max_region) <= max_coverage THEN max_region
            ELSE LET partial(x) == total_coverage(tracker, Region(max_region.begin, x + 1))
                     over == {x \in max_region.begin..(max_region.end - 1) :
                                 partial(x) > max_coverage}
                     last_position == IF over = {} THEN max_region.end
                                      ELSE CHOOSE x \in over : \A y \in over : x <= y
                 IN Region(max_region.begin,
                           max_region.end + (last_position - max_region.begin))

\* The local result of a query, one field per kind of query: the bool of has_reads,
\* the count of count_reads, the SampleReadMap of fetch_reads, the position_tracker
\* and the returned region of find_covered_subregion.
NoAcc == [found |-> FALSE, count |-> 0, reads |-> <<>>, tracker |-> <<>>,
          region |-> Region(0, 0)]

\* The value a query starts from.
InitAcc(a) ==
    IF a.kind = "fetch_reads" THEN [NoAcc EXCEPT !.reads = [s \in a.samples |-> <<>>]]
    ELSE NoAcc

\* The body of the for_each / any_of of a query over the readers of a batch,
\* given as the sequence of the readers that open_readers_.at() returns.
RECURSIVE ProcessReaders(_, _, _)
ProcessReaders(a, v, readers) ==
    IF readers = <<>> THEN v
    ELSE LET p == Head(readers)
         IN TheOne({ProcessReaders(a, v1, Tail(readers)) :
                      v1 \in {CASE a.kind = "has_reads" ->
                                      [v EXCEPT !.found =
                                          v.found \/ ReaderHasReads(p, a.samples, a.region)]
                                 [] a.kind = "count_reads" ->
                                      [v EXCEPT !.count =
                                          v.count + ReaderCountReads(p, a.samples, a.region)]
                                 [] a.kind = "fetch_reads" ->
                                      [v EXCEPT !.reads =
                                          [s \in a.samples |->
                                              merge_insert(
                                                  ReaderFetchReads(p, a.samples, a.region)[s],
                                                  v.reads[s])]]}})

ProcessBatchValue(a, v, readers) ==
    IF a.kind = "find_covered_subregion"
    THEN [v EXCEPT !.tracker =
             TrackReaders([tracker |-> v.tracker, added_tail_position |-> FALSE],
                          readers, a).tracker]
    ELSE ProcessReaders(a, v, readers)

\* The value a query returns from what it accumulated.
FinalValue(a, v) ==
    IF a.kind = "find_covered_subregion"
    THEN [NoAcc EXCEPT !.region = max_head_region(v.tracker, a.region, a.max_reads)]
    ELSE v

\* The candidate paths of a query on the slow path.
Candidates(a) ==
    IF a.kind = "has_reads" THEN get_reader_paths_containing_samples(a.samples)
    ELSE get_possible_reader_paths(a.samples, a.region)

\* Number of reads in a fetch_reads result
SumLengths(v) == SumSeq([i \in 1..NumSamples |-> IF i \in DOMAIN v THEN Len(v[i]) ELSE 0])

(***************************************************************************)
(* ReadManager: the state after construction and the steps of a query.     *)
(* A thread is idle, has called a query and found the fast path ("fast")   *)
(* or the slow path ("wait", before the lock_guard), runs the loop of the  *)
(* slow path under the mutex ("loop", "open_readers", "closing",           *)
(* "opening"), or has returned ("done", acc holding the returned value).   *)
(* The arguments of a call are local to it and not read before the lock    *)
(* is taken: they are fixed by the step that first uses them.  The caller  *)
(* consumes a returned value before any other step is taken.               *)
(***************************************************************************)
NoEntry == [called |-> FALSE, requested |-> 0, available |-> 0, open |-> <<>>]

ThreadInit ==
    /\ pc = [t \in Threads |-> "idle"]
    /\ args = [t \in Threads |-> NoArgs]
    /\ reader_paths = [t \in Threads |-> <<>>]
    /\ reader_itr = [t \in Threads |-> 1]
    /\ acc = [t \in Threads |-> NoAcc]
    /\ n_close = [t \in Threads |-> 0]
    /\ open_idx = [t \in Threads |-> 1]
    /\ entry = [t \in Threads |-> NoEntry]
    /\ carry = [t \in Threads |-> NoCarry]

\* The sizes of the input files. Sizes are only ever compared, so the sizes in use
\* are taken to be 1..k for some k, and the input paths are numbered in order of
\* size: every pattern of ties between the files, none and all included.
FileSizes ==
    {f \in [Paths -> 1..MaxFileSize] :
        /\ f[1] = 1
        /\ \A p \in Paths \ {1} : f[p] \in {f[p - 1], f[p - 1] + 1}}

\* ReadManager::ReadManager(read_file_paths, max_open_files)
RMInit ==
    /\ file_size \in FileSizes
    /\ max_open_files_ \in 0..MaxBudget
    /\ \E rm \in open_initial_files(RM(<<>>, Paths)) :
          /\ open_readers_ = rm.open
          /\ closed_readers_ = rm.closed
    /\ mutex_ = NoThread
    /\ ThreadInit
    /\ AssemblerIdle
    /\ GeneratorIdle
    /\ swap_call = NoSwapCall

Manager == RM(open_readers_, closed_readers_)

NoneDone == \A u \in Threads : pc[u] # "done"

ArgsOf(t) == IF args[t] = NoArgs THEN QueryArgs ELSE {args[t]}

EntryPc == IF all_readers_are_open THEN "fast" ELSE "wait"

\* A thread calls has_reads, count_reads, fetch_reads or find_covered_subregion.
Call(t) ==
    /\ pc[t] = "idle"
    /\ NoneDone
    /\ pc' = [pc EXCEPT ![t] = EntryPc]
    /\ UNCHANGED <<file_size, max_open_files_, open_readers_, closed_readers_, mutex_,
                   args, reader_paths, reader_itr, acc, n_close, open_idx, entry, carry>>
    /\ UNCHANGED nonrm

\* The caller of count_reads calls fetch_reads with the same samples and region.
CallFetchAfterCount(t) ==
    /\ pc[t] = "done"
    /\ args[t].kind = "count_reads"
    /\ carry' = [carry EXCEPT ![t] = [set |-> TRUE, count |-> acc[t].count]]
    /\ args' = [args EXCEPT ![t].kind = "fetch_reads"]
    /\ acc' = [acc EXCEPT ![t] = NoAcc]
    /\ pc' = [pc EXCEPT ![t] = EntryPc]
    /\ UNCHANGED <<file_size, max_open_files_, open_readers_, closed_readers_, mutex_,
                   reader_paths, reader_itr, n_close, open_idx, entry>>
    /\ UNCHANGED nonrm

\* The all_readers_are_open() branch of a query: every open reader, in map order.
FastQuery(t) ==
    /\ pc[t] = "fast"
    /\ NoneDone
    /\ \E a \in ArgsOf(t) :
          /\ args' = [args EXCEPT ![t] = a]
          /\ acc' = [acc EXCEPT ![t] =
                        FinalValue(a, ProcessBatchValue(a, InitAcc(a), open_readers_))]
    /\ pc' = [pc EXCEPT ![t] = "done"]
    /\ UNCHANGED <<file_size, max_open_files_, open_readers_, closed_readers_, mutex_,
                   reader_paths, reader_itr, n_close, open_idx, entry, carry>>
    /\ UNCHANGED nonrm

\* std::lock_guard lock {mutex_}; get_possible_reader_paths; partition_open
Acquire(t) ==
    /\ pc[t] = "wait"
    /\ NoneDone
    /\ mutex_ = NoThread
    /\ mutex_' = {t}
    /\ \E a \in ArgsOf(t) :
          /\ args' = [args EXCEPT ![t] = a]
          /\ acc' = [acc EXCEPT ![t] = InitAcc(a)]
          /\ \E part \in partition_open(Manager, Candidates(a)) :
                /\ reader_paths' = [reader_paths EXCEPT ![t] = part.paths]
                /\ reader_itr' = [reader_itr EXCEPT ![t] = part.itr]
    /\ pc' = [pc EXCEPT ![t] = "loop"]
    /\ UNCHANGED <<file_size, max_open_files_, open_readers_, closed_readers_,
                   n_close, open_idx, entry, carry>>
    /\ UNCHANGED nonrm

\* The readers open_readers_.at() returns for the paths [reader_itr, end)
BatchReaders(t) ==
    [i \in 1..(Len(reader_paths[t]) - reader_itr[t] + 1) |->
        MapAt(open_readers_, reader_paths[t][reader_itr[t] + i - 1])]

\* One round of the while loop up to the erase: the batch is read and erased;
\* has_reads returns true as soon as a batch has reads.
ProcessBatch(t) ==
    /\ pc[t] = "loop"
    /\ NoneDone
    /\ reader_paths[t] # <<>>
    /\ \E v \in {ProcessBatchValue(args[t], acc[t], BatchReaders(t))} :
          IF args[t].kind = "has_reads" /\ v.found
          THEN /\ acc' = [acc EXCEPT ![t] = v]
               /\ reader_paths' = [reader_paths EXCEPT ![t] = <<>>]
               /\ reader_itr' = [reader_itr EXCEPT ![t] = 1]
               /\ mutex_' = NoThread
               /\ pc' = [pc EXCEPT ![t] = "done"]
          ELSE /\ acc' = [acc EXCEPT ![t] = v]
               /\ reader_paths' = [reader_paths EXCEPT ![t] =
                                      SubSeq(reader_paths[t], 1, reader_itr[t] - 1)]
               /\ reader_itr' = reader_itr
               /\ mutex_' = mutex_
               /\ pc' = [pc EXCEPT ![t] = "open_readers"]
    /\ entry' = [entry EXCEPT ![t] = NoEntry]
    /\ UNCHANGED <<file_size, max_open_files_, open_readers_, closed_readers_,
                   args, n_close, open_idx, carry>>
    /\ UNCHANGED nonrm

\* reader_itr = open_readers(begin(reader_paths), end(reader_paths)): entry
OpenReadersEnter(t) ==
    /\ pc[t] = "open_readers"
    /\ LET plan == open_readers_plan(Manager, Len(reader_paths[t]))
       IN /\ n_close' = [n_close EXCEPT ![t] = plan.to_close]
          /\ open_idx' = [open_idx EXCEPT ![t] = plan.first_open + 1]
          /\ reader_itr' = [reader_itr EXCEPT ![t] = plan.first_open + 1]
          /\ pc' = [pc EXCEPT ![t] = IF plan.to_close > 0 THEN "closing" ELSE "opening"]
    /\ entry' = [entry EXCEPT ![t] =
                    [called |-> TRUE,
                     requested |-> Len(reader_paths[t]),
                     available |-> num_reader_spaces(Manager),
                     open |-> open_readers_]]
    /\ UNCHANGED <<file_size, max_open_files_, open_readers_, closed_readers_, mutex_,
                   args, reader_paths, acc, carry>>
    /\ UNCHANGED nonrm

\* close_readers: one close_reader(choose_reader_to_close())
CloseStep(t) ==
    /\ pc[t] = "closing"
    /\ LET rm == close_reader(Manager, choose_reader_to_close(Manager))
       IN /\ open_readers_' = rm.open
          /\ closed_readers_' = rm.closed
    /\ n_close' = [n_close EXCEPT ![t] = n_close[t] - 1]
    /\ pc' = [pc EXCEPT ![t] = IF n_close[t] = 1 THEN "opening" ELSE "closing"]
    /\ UNCHANGED <<file_size, max_open_files_, mutex_, args, reader_paths, reader_itr,
                   acc, open_idx, entry, carry>>
    /\ UNCHANGED nonrm

\* for_each(first_open, last, open_reader): one open_reader
OpenStep(t) ==
    /\ pc[t] = "opening"
    /\ open_idx[t] <= Len(reader_paths[t])
    /\ LET rm == open_reader(Manager, reader_paths[t][open_idx[t]])
       IN /\ open_readers_' = rm.open
          /\ closed_readers_' = rm.closed
    /\ open_idx' = [open_idx EXCEPT ![t] = open_idx[t] + 1]
    /\ UNCHANGED <<file_size, max_open_files_, mutex_, pc, args, reader_paths, reader_itr,
                   acc, n_close, entry, carry>>
    /\ UNCHANGED nonrm

\* open_readers returns first_open; the loop tests reader_paths.empty() next
OpenReadersReturn(t) ==
    /\ pc[t] = "opening"
    /\ open_idx[t] > Len(reader_paths[t])
    /\ open_idx' = [open_idx EXCEPT ![t] = 1]
    /\ pc' = [pc EXCEPT ![t] = "loop"]
    /\ UNCHANGED <<file_size, max_open_files_, open_readers_, closed_readers_, mutex_,
                   args, reader_paths, reader_itr, acc, n_close, entry, carry>>
    /\ UNCHANGED nonrm

\* reader_paths is empty: the query returns and the lock_guard releases the mutex
LoopExit(t) ==
    /\ pc[t] = "loop"
    /\ NoneDone
    /\ reader_paths[t] = <<>>
    /\ acc' = [acc EXCEPT ![t] = FinalValue(args[t], acc[t])]
    /\ reader_itr' = [reader_itr EXCEPT ![t] = 1]
    /\ entry' = [entry EXCEPT ![t] = NoEntry]
    /\ mutex_' = NoThread
    /\ pc' = [pc EXCEPT ![t] = "done"]
    /\ UNCHANGED <<file_size, max_open_files_, open_readers_, closed_readers_,
                   args, reader_paths, n_close, open_idx, carry>>
    /\ UNCHANGED nonrm

\* The caller takes the returned value.
Return(t) ==
    /\ pc[t] = "done"
    /\ pc' = [pc EXCEPT ![t] = "idle"]
    /\ args' = [args EXCEPT ![t] = NoArgs]
    /\ acc' = [acc EXCEPT ![t] = NoAcc]
    /\ carry' = [carry EXCEPT ![t] = NoCarry]
    /\ UNCHANGED <<file_size, max_open_files_, open_readers_, closed_readers_, mutex_,
                   reader_paths, reader_itr, n_close, open_idx, entry>>
    /\ UNCHANGED nonrm

vars == <<rmvars, nonrm>>

Init == RMInit

Next ==
    \/ \E t \in Threads : Call(t)
    \/ \E t \in Threads : CallFetchAfterCount(t)
    \/ \E t \in Threads : FastQuery(t)
    \/ \E t \in Threads : Acquire(t)
    \/ \E t \in Threads : ProcessBatch(t)
    \/ \E t \in Threads : OpenReadersEnter(t)
    \/ \E t \in Threads : CloseStep(t)
    \/ \E t \in Threads : OpenStep(t)
    \/ \E t \in Threads : OpenReadersReturn(t)
    \/ \E t \in Threads : LoopExit(t)
    \/ \E t \in Threads : Return(t)

Spec == Init /\ [][Next]_vars

\* The steps of a thread that holds the mutex or runs the fast path. The scheduler
\* runs every thread that can take a step; taking the mutex is not guaranteed.
Running(t) ==
    \/ FastQuery(t)
    \/ ProcessBatch(t)
    \/ OpenReadersEnter(t)
    \/ CloseStep(t)
    \/ OpenStep(t)
    \/ OpenReadersReturn(t)
    \/ LoopExit(t)
    \/ Return(t)

\* The input files have pairwise distinct sizes.
DistinctSizes == \A p, q \in Paths : p # q => file_size[p] # file_size[q]

\* Termination is checked for the managers of files of pairwise distinct sizes.
FairInit == RMInit /\ DistinctSizes

FairSpec == FairInit /\ [][Next]_vars /\ \A t \in Threads : WF_vars(Running(t))

(***************************************************************************)
(* Properties of the read manager.                                         *)
(***************************************************************************)
InSlowPath(t) == pc[t] \in {"loop", "open_readers", "closing", "opening"}

\* open_readers has returned to the loop of thread t after it was short of free slots
Evicted(t) ==
    /\ pc[t] = "loop"
    /\ entry[t].called
    /\ entry[t].requested > entry[t].available

\* M1: open_readers and closed_readers partition the input paths
M1 ==
    /\ Range(open_readers_) \cap closed_readers_ = {}
    /\ Range(open_readers_) \cup closed_readers_ = Paths
    /\ num_files(Manager) = NumPaths

\* M2: the budget
M2 == Len(open_readers_) <= max_open_files_

\* M3: open_readers is in ascending order of file size
M3 == \A i, j \in DOMAIN open_readers_ :
         i < j => file_size[open_readers_[i]] <= file_size[open_readers_[j]]

\* C1: the number of open readers never exceeds max_open_files, after construction
\* and in every state of every query.
C1_OpenWithinBudget == Len(open_readers_) <= max_open_files_

\* C1 witness: a query has closed and opened readers to serve closed candidates
C1_Witness ==
    \E t \in Threads :
        /\ Evicted(t)
        /\ max_open_files_ > 0
        /\ open_readers_ # entry[t].open
        /\ Len(open_readers_) = max_open_files_

\* C2: open_readers and closed_readers are disjoint, their union is the set of
\* input paths and num_files() is the number of input paths, for every input,
\* files of equal size included.
C2_Partition == M1

\* C7: every open and close of a reader happens under the mutex, and M1-M3 hold
\* whenever the mutex is free (managers with more files than max_open_files).
C7_InvariantsWhenUnlocked ==
    (num_files_ > max_open_files_ /\ mutex_ = NoThread) => (M1 /\ M2 /\ M3)

\* C8: every query terminates: a query that has entered the loop of the slow path
\* returns, for every max_open_files (0 included) and every candidate set.
C8_Terminates == \A t \in Threads : InSlowPath(t) ~> (pc[t] = "done")

\* C9: count_reads(samples, region) equals the number of reads fetch_reads(samples,
\* region) returns, whatever the open/closed configuration of each call.
C9_CountEqualsFetch ==
    \A t \in Threads :
        (pc[t] = "done" /\ args[t].kind = "fetch_reads" /\ carry[t].set)
            => carry[t].count = SumLengths(acc[t].reads)

\* C10: when open_readers is short of free slots it closes the smallest open
\* readers, exactly as many as needed, and max_open_files readers are open after.
C10_EvictsSmallest ==
    \A t \in Threads :
        Evicted(t) =>
            LET n == Min(Len(entry[t].open), entry[t].requested - entry[t].available)
            IN /\ \A i \in 1..Len(entry[t].open) :
                     (i <= n) <=> (entry[t].open[i] \in closed_readers_)
               /\ Len(open_readers_) = max_open_files_

\* The open readers are min(max_open_files, |paths|) files of smallest size and
\* every other input path is closed.
SmallestAreOpen ==
    /\ Len(open_readers_) = Min(max_open_files_, NumPaths)
    /\ \A p \in Range(open_readers_) : \A q \in Paths \ Range(open_readers_) :
           file_size[p] <= file_size[q]
    /\ closed_readers_ = Paths \ Range(open_readers_)

\* C11: after ReadManager(paths, max_open_files) the open readers are exactly the
\* min(max_open_files, |paths|) files of smallest size and every other path is in
\* closed_readers (a statement about the state the constructor leaves).
C11_SmallestOpenAfterNew == SmallestAreOpen /\ [][TRUE]_vars

\* C11 for input files of pairwise distinct sizes.
C11_Distinct == (DistinctSizes => SmallestAreOpen) /\ [][TRUE]_vars

\* The number of read positions of the samples, pooled over the input files, that
\* lie in a region (a position held by several files or samples counts each time).
PooledPositions(samples, region) ==
    SumSeq([p \in Paths |-> ReaderCountReads(p, samples, region)])

\* r is the largest prefix of region that holds at most max_reads pooled positions
LargestCoveredPrefix(r, samples, region, max_reads) ==
    /\ r.begin = region.begin
    /\ r.begin <= r.end
    /\ r.end <= region.end
    /\ PooledPositions(samples, r) <= max_reads
    /\ r.end < region.end => PooledPositions(samples, Region(r.begin, r.end + 1)) > max_reads

\* C12: find_covered_subregion(samples, region, max_reads) returns a region that
\* begins at region.begin, is contained in region, holds at most max_reads pooled
\* read positions and is the largest such prefix (the whole region when the region
\* holds at most max_reads positions).
C12_LargestCoveredPrefix ==
    \A t \in Threads :
        (pc[t] = "done" /\ args[t].kind = "find_covered_subregion")
            => LargestCoveredPrefix(acc[t].region, args[t].samples, args[t].region,
                                    args[t].max_reads)

\* C12 for input files of pairwise distinct sizes, all of them open.
C12_AllOpen == (DistinctSizes /\ all_readers_are_open) => C12_LargestCoveredPrefix

\* The returned region begins at region.begin.
CoveredSubregionBeginsAtRegion ==
    \A t \in Threads :
        (pc[t] = "done" /\ args[t].kind = "find_covered_subregion")
            => acc[t].region.begin = args[t].region.begin

\* How many times read x is in the list s
Occurrences(s, x) == Cardinality({i \in DOMAIN s : s[i] = x})

\* The list is sorted and holds every read as many times as there are input files
\* that return it for the sample and the region.
SortedUnionOfFiles(list, sample, region) ==
    /\ IsSortedSeq(list)
    /\ \A x \in Positions :
           Occurrences(list, x) =
               Cardinality({p \in Paths : x \in Range(ReaderFetchSample(p, sample, region))})

\* C13: for every requested sample the list fetch_reads returns is sorted and is
\* the multiset union of the reads each contributing file returns, on the path
\* with all readers open and on the path that closes and opens readers.
C13_SortedMergeOfFiles ==
    \A t \in Threads :
        (pc[t] = "done" /\ args[t].kind = "fetch_reads")
            => \A s \in args[t].samples :
                  SortedUnionOfFiles(acc[t].reads[s], s, args[t].region)

\* C13 for input files of pairwise distinct sizes.
C13_Distinct == DistinctSizes => C13_SortedMergeOfFiles

\* The statements above for input files of pairwise distinct sizes.
C2_PartitionDistinct == DistinctSizes => C2_Partition
C7_Distinct == DistinctSizes => C7_InvariantsWhenUnlocked
C9_Distinct == DistinctSizes => C9_CountEqualsFetch
C10_Distinct == DistinctSizes => C10_EvictsSmallest

(***************************************************************************)
(* The assembler: sequences, k-mers and the k-mer graph.                   *)
(***************************************************************************)
KmerSize == 2
MaxSeqLen == 4
MaxCalls == 3

Bases == {"A", "C", "G", "T"}

\* The letters the inserted sequences are drawn from: two bases and a letter that
\* is not a base.
Alphabet == {"A", "C", "N"}

Sequences == UNION {[1..n -> Alphabet] : n \in 1..MaxSeqLen}

\* utils::is_canonical_dna
is_canonical_dna(sequence) == \A i \in DOMAIN sequence : sequence[i] \in Bases

\* Kmer {kmer_begin, kmer_end}: the k-mer of a sequence that starts at position i
Kmer(sequence, i, k) == SubSeq(sequence, i, i + k - 1)

count_kmers(sequence, kmer_size) ==
    IF Len(sequence) >= kmer_size THEN Len(sequence) - kmer_size + 1 ELSE 0

sequence_length(num_kmers, kmer_size) == num_kmers + kmer_size - 1

\* A transition score is blocked * blockedScore + max * 100 + |log(num / den)|
\* with num <= den.
ZeroScore == [blocked |-> 0, max |-> 0, num |-> 1, den |-> 1]

\* null_vertex(): no k-mer is empty
null_vertex == <<>>

\* The vertices of the graph, each named by its k-mer.
Kmers(a) == {a.vertices[i].kmer : i \in DOMAIN a.vertices}

contains_kmer(a, kmer) == \E i \in DOMAIN a.vertices : a.vertices[i].kmer = kmer

num_kmers(a) == Len(a.vertices)

is_empty(a) == a.vertices = <<>>

\* boost::add_vertex and vertex_cache_.emplace; none of it for a k-mer that is not
\* canonical, for which the caller gets boost::none
add_vertex(a, kmer, is_reference) ==
    IF ~is_canonical_dna(kmer) THEN a
    ELSE [a EXCEPT !.vertices = Append(@, [kmer |-> kmer, is_reference |-> is_reference])]

add_edge(a, u, v, weight, is_reference) ==
    [a EXCEPT !.edges = Append(@, [id |-> a.num_edges_added + 1,
                                    source |-> u, target |-> v,
                                    weight |-> weight, is_reference |-> is_reference,
                                    transition_score |-> ZeroScore]),
              !.num_edges_added = @ + 1]

add_unmarked_edge(a, u, v) == add_edge(a, u, v, 0, FALSE)

add_reference_edge(a, u, v) == add_edge(a, u, v, 0, TRUE)

\* boost::edge(u, v, graph_): the first edge from u to v among the out-edges of u,
\* as its place in the edge list, or 0 when there is none
edge(a, u, v) ==
    LET found == {i \in DOMAIN a.edges : a.edges[i].source = u /\ a.edges[i].target = v}
    IN IF found = {} THEN 0 ELSE CHOOSE i \in found : \A j \in found : i <= j

\* The weight is left as it is.
keep_weight(a, e) == a

increment_weight(a, e) == [a EXCEPT !.edges[e].weight = @ + 1]

set_vertex_reference(a, kmer) ==
    [a EXCEPT !.vertices = [i \in DOMAIN a.vertices |->
        IF a.vertices[i].kmer = kmer
        THEN [a.vertices[i] EXCEPT !.is_reference = TRUE]
        ELSE a.vertices[i]]]

set_edge_reference(a, e) == [a EXCEPT !.edges[e].is_reference = TRUE]

\* The loop of insert_read from the k-mer at position i on
RECURSIVE insert_read_from(_, _, _, _)
insert_read_from(a, sequence, i, prev_kmer_good) ==
    IF i + a.k_ - 1 > Len(sequence) THEN a
    ELSE
        LET kmer == Kmer(sequence, i, a.k_)
            prev_kmer == Kmer(sequence, i - 1, a.k_)
            e == edge(a, prev_kmer, kmer)
            next ==
                IF ~contains_kmer(a, kmer) THEN
                    IF is_canonical_dna(kmer) THEN
                        [a |-> IF prev_kmer_good
                               THEN add_edge(add_vertex(a, kmer, FALSE), prev_kmer, kmer, 1, FALSE)
                               ELSE add_vertex(a, kmer, FALSE),
                         good |-> TRUE]
                    ELSE [a |-> a, good |-> FALSE]
                ELSE IF prev_kmer_good THEN
                    [a |-> IF e # 0 THEN increment_weight(a, e)
                           ELSE add_edge(a, prev_kmer, kmer, 1, FALSE),
                     good |-> TRUE]
                ELSE [a |-> a, good |-> TRUE]
        IN TheOne({insert_read_from(n.a, sequence, i + 1, n.good) : n \in {next}})

insert_read(a, sequence) ==
    IF Len(sequence) < a.k_ THEN a
    ELSE
        LET prev_kmer == Kmer(sequence, 1, a.k_)
            first ==
                IF ~contains_kmer(a, prev_kmer)
                THEN [a |-> add_vertex(a, prev_kmer, FALSE), good |-> is_canonical_dna(prev_kmer)]
                ELSE [a |-> a, good |-> TRUE]
        IN TheOne({insert_read_from(n.a, sequence, 2, n.good) : n \in {first}})

\* An insert_reference call ends by returning or by throwing; the assembler keeps
\* what the call did before it threw.
Returned(a) == [a |-> a, thrown |-> "none"]
Threw(a, what) == [a |-> a, thrown |-> what]

\* The loop of insert_reference_into_empty_graph from the k-mer at position i on
RECURSIVE insert_reference_into_empty_graph_from(_, _, _)
insert_reference_into_empty_graph_from(a, sequence, i) ==
    IF i + a.k_ - 1 > Len(sequence) THEN Returned(a)
    ELSE
        LET kmer == Kmer(sequence, i, a.k_)
            prev_kmer == Kmer(sequence, i - 1, a.k_)
            b == [a EXCEPT !.reference_kmers_ = Append(@, kmer)]
        IN IF ~contains_kmer(b, kmer) /\ ~is_canonical_dna(kmer)
           THEN Threw(b, "BadReferenceSequence")
           ELSE
               LET next ==
                       IF ~contains_kmer(b, kmer)
                       THEN add_reference_edge(add_vertex(b, kmer, TRUE), prev_kmer, kmer)
                       ELSE add_reference_edge(b, prev_kmer, kmer)
               IN TheOne({insert_reference_into_empty_graph_from(n, sequence, i + 1) :
                            n \in {next}})

insert_reference_into_empty_graph(a, sequence) ==
    IF Len(sequence) < a.k_ THEN Threw(a, "runtime_error")
    ELSE
        LET kmer == Kmer(sequence, 1, a.k_)
            b == [a EXCEPT !.reference_kmers_ = Append(@, kmer)]
        IN IF ~contains_kmer(b, kmer) /\ ~is_canonical_dna(kmer)
           THEN Threw(b, "BadReferenceSequence")
           ELSE
               LET first == IF ~contains_kmer(b, kmer) THEN add_vertex(b, kmer, TRUE) ELSE b
               IN TheOne({insert_reference_into_empty_graph_from(n, sequence, 2) :
                            n \in {first}})

\* The loop of insert_reference_into_populated_graph from the k-mer at position i on
RECURSIVE insert_reference_into_populated_graph_from(_, _, _)
insert_reference_into_populated_graph_from(a, sequence, i) ==
    IF i + a.k_ - 1 > Len(sequence)
    THEN Returned([a EXCEPT !.reference_head_position_ = 0])
    ELSE
        LET kmer == Kmer(sequence, i, a.k_)
            prev_kmer == Kmer(sequence, i - 1, a.k_)
            b == [a EXCEPT !.reference_kmers_ = Append(@, kmer)]
        IN IF ~contains_kmer(b, kmer) /\ ~is_canonical_dna(kmer)
           THEN Threw(b, "BadReferenceSequence")
           ELSE
               LET c == set_vertex_reference(b, kmer)
                   e == edge(c, prev_kmer, kmer)
                   next ==
                       IF ~contains_kmer(b, kmer)
                       THEN add_reference_edge(add_vertex(b, kmer, TRUE), prev_kmer, kmer)
                       ELSE IF e # 0 THEN set_edge_reference(c, e)
                       ELSE add_reference_edge(c, prev_kmer, kmer)
               IN TheOne({insert_reference_into_populated_graph_from(n, sequence, i + 1) :
                            n \in {next}})

insert_reference_into_populated_graph(a, sequence) ==
    IF a.reference_kmers_ # <<>> THEN Threw(a, "runtime_error")
    ELSE IF Len(sequence) < a.k_ THEN Threw(a, "runtime_error")
    ELSE
        LET kmer == Kmer(sequence, 1, a.k_)
            b == [a EXCEPT !.reference_kmers_ = Append(@, kmer)]
        IN IF ~contains_kmer(b, kmer) /\ ~is_canonical_dna(kmer)
           THEN Threw(b, "BadReferenceSequence")
           ELSE
               LET first == IF ~contains_kmer(b, kmer) THEN add_vertex(b, kmer, TRUE)
                            ELSE set_vertex_reference(b, kmer)
               IN TheOne({insert_reference_into_populated_graph_from(n, sequence, 2) :
                            n \in {first}})

\* The graph is taken to be empty.
insert_reference_as_first(a, sequence) == insert_reference_into_empty_graph(a, sequence)

insert_reference(a, sequence) ==
    IF is_empty(a) THEN insert_reference_into_empty_graph(a, sequence)
    ELSE insert_reference_into_populated_graph(a, sequence)

\* Assembler::clear. reference_head_position_ and k_ stay as they are.
clear(a) ==
    [a EXCEPT !.vertices = <<>>, !.edges = <<>>, !.num_edges_added = 0,
              !.reference_kmers_ = <<>>]

(***************************************************************************)
(* The assembler: access to the graph.                                     *)
(***************************************************************************)
RemoveAt(s, i) == SubSeq(s, 1, i - 1) \o SubSeq(s, i + 1, Len(s))

Reverse(s) == [i \in 1..Len(s) |-> s[Len(s) + 1 - i]]

\* The edges of the graph as their places in the edge list, in order.
EdgeList(a) == [i \in 1..Len(a.edges) |-> i]

\* boost::out_edges(v, graph_) and boost::in_edges(v, graph_), in insertion order
out_edges(a, v) == SelectSeq(EdgeList(a), LAMBDA e : a.edges[e].source = v)
in_edges(a, v) == SelectSeq(EdgeList(a), LAMBDA e : a.edges[e].target = v)

out_degree(a, v) == Len(out_edges(a, v))
in_degree(a, v) == Len(in_edges(a, v))

\* The place of the edge with a given descriptor, or 0 when the edge is gone.
EdgeOfId(a, id) ==
    IF \E i \in DOMAIN a.edges : a.edges[i].id = id
    THEN CHOOSE i \in DOMAIN a.edges : a.edges[i].id = id
    ELSE 0

\* is_reference(Vertex) and is_reference(Edge)
is_reference_vertex(a, v) ==
    \E i \in DOMAIN a.vertices : a.vertices[i].kmer = v /\ a.vertices[i].is_reference
is_reference_edge(a, e) == a.edges[e].is_reference

is_reference_empty(a) == a.reference_kmers_ = <<>>
reference_head(a) == a.reference_kmers_[1]
reference_tail(a) == a.reference_kmers_[Len(a.reference_kmers_)]
reference_size(a) == sequence_length(Len(a.reference_kmers_), a.k_)

num_reference_kmers(a) ==
    Cardinality({i \in DOMAIN a.vertices : a.vertices[i].is_reference})

\* std::none_of in the place of std::all_of.
is_none_reference(a) == \A e \in DOMAIN a.edges : ~is_reference_edge(a, e)

is_all_reference(a) == \A e \in DOMAIN a.edges : is_reference_edge(a, e)

\* The first reference edge among the out-edges of u, or 0.
FirstReferenceOutEdge(a, u) ==
    LET found == SelectSeq(out_edges(a, u), LAMBDA e : is_reference_edge(a, e))
    IN IF found = <<>> THEN 0 ELSE found[1]

\* next_reference(u); null_vertex stands for the failed assertion when u has no
\* reference out-edge
next_reference(a, u) ==
    LET e == FirstReferenceOutEdge(a, u)
    IN IF e = 0 THEN null_vertex ELSE a.edges[e].target

\* boost::remove_edge(e, graph_)
remove_edge(a, e) == [a EXCEPT !.edges = RemoveAt(@, e)]

\* boost::remove_edge(u, v, graph_): every edge from u to v goes
remove_edges(a, u, v) ==
    [a EXCEPT !.edges = SelectSeq(@, LAMBDA x : ~(x.source = u /\ x.target = v))]

\* remove_vertex(v): the caller has removed the edges of v
remove_vertex(a, v) ==
    [a EXCEPT !.vertices = SelectSeq(@, LAMBDA x : x.kmer # v)]

\* clear_and_remove_vertex(v)
clear_and_remove_vertex(a, v) ==
    [a EXCEPT !.vertices = SelectSeq(@, LAMBDA x : x.kmer # v),
              !.edges = SelectSeq(@, LAMBDA x : x.source # v /\ x.target # v)]

\* every edge of the graph joins two vertices of the graph
GraphWellFormed(a) ==
    \A e \in DOMAIN a.edges :
        contains_kmer(a, a.edges[e].source) /\ contains_kmer(a, a.edges[e].target)

\* is_reference_unique_path(); the reference is not empty
RECURSIVE is_reference_unique_path_from(_, _, _)
is_reference_unique_path_from(a, u, steps) ==
    LET refs == SelectSeq(out_edges(a, u), LAMBDA e : is_reference_edge(a, e))
    IN IF u = reference_tail(a) THEN refs = <<>>
       ELSE IF Len(refs) # 1 \/ steps > Len(a.edges) THEN FALSE
       ELSE is_reference_unique_path_from(a, a.edges[refs[1]].target, steps + 1)

is_reference_unique_path(a) == is_reference_unique_path_from(a, reference_head(a), 0)

(***************************************************************************)
(* The assembler: transition scores and shortest paths.                    *)
(***************************************************************************)
\* A score or a sum of scores is blocked * blockedScore + max * 100 + |log(num / den)|
\* with 0 < num <= den. blockedScore is larger than the sum of the other scores of
\* a path, and 100 is larger than the logarithms of a path; scores are compared as
\* the real numbers they stand for.
MaxScore == [blocked |-> 0, max |-> 1, num |-> 1, den |-> 1]
blockedScore == [blocked |-> 1, max |-> 0, num |-> 1, den |-> 1]

ScoreLess(x, y) ==
    \/ x.blocked < y.blocked
    \/ x.blocked = y.blocked /\ x.max < y.max
    \/ x.blocked = y.blocked /\ x.max = y.max /\ x.den * y.num < y.den * x.num

ScoreEqual(x, y) == ~ScoreLess(x, y) /\ ~ScoreLess(y, x)

ScorePlus(x, y) ==
    [blocked |-> x.blocked + y.blocked, max |-> x.max + y.max,
     num |-> x.num * y.num, den |-> x.den * y.den]

RECURSIVE SumWeights(_, _, _)
SumWeights(a, es, i) ==
    IF i > Len(es) THEN 0 ELSE a.edges[es[i]].weight + SumWeights(a, es, i + 1)

count_out_weight(a, v) == TheOne({SumWeights(a, es, 1) : es \in {out_edges(a, v)}})

compute_transition_score(edge_weight, total_out_weight) ==
    IF total_out_weight = 0 THEN ZeroScore
    ELSE IF edge_weight = 0 THEN MaxScore
    ELSE [blocked |-> 0, max |-> 0, num |-> edge_weight, den |-> total_out_weight]

set_out_edge_transition_scores(a, v) ==
    LET total_out_weight == count_out_weight(a, v)
    IN [a EXCEPT !.edges = [e \in DOMAIN a.edges |->
           IF a.edges[e].source = v
           THEN [a.edges[e] EXCEPT !.transition_score =
                    compute_transition_score(a.edges[e].weight, total_out_weight)]
           ELSE a.edges[e]]]

\* The depth first search discovers every vertex of the graph, and TransitionScorer
\* scores the out-edges of every vertex it discovers.
set_all_edge_transition_scores_from(a, src) ==
    LET total == [v \in Kmers(a) |-> count_out_weight(a, v)]
    IN [a EXCEPT !.edges = [e \in DOMAIN a.edges |->
           [a.edges[e] EXCEPT !.transition_score =
               compute_transition_score(a.edges[e].weight, total[a.edges[e].source])]]]

is_blocked(a, e) == a.edges[e].transition_score.blocked >= 1

block_edge(a, e) == [a EXCEPT !.edges[e].transition_score = blockedScore]

set_all_in_edge_transition_scores(a, v, score) ==
    [a EXCEPT !.edges = [e \in DOMAIN a.edges |->
        IF a.edges[e].target = v
        THEN [a.edges[e] EXCEPT !.transition_score = score]
        ELSE a.edges[e]]]

block_all_in_edges(a, v) == set_all_in_edge_transition_scores(a, v, blockedScore)

all_in_edges_are_blocked(a, v) ==
    \A e \in DOMAIN a.edges :
        a.edges[e].target = v => a.edges[e].transition_score = blockedScore

RECURSIVE block_all_vertices(_, _)
block_all_vertices(a, vertices) ==
    IF vertices = {} THEN a
    ELSE LET v == CHOOSE x \in vertices : TRUE
         IN block_all_vertices(block_all_in_edges(a, v), vertices \ {v})

all_vertices_are_blocked(a, vertices) ==
    \A v \in vertices : all_in_edges_are_blocked(a, v)

\* A depth first search. color is the colour map, finished the vertices in the
\* order they were finished, back_edge whether an edge to a grey vertex was seen.
RECURSIVE dfs_visit(_, _, _)
RECURSIVE dfs_out_edges(_, _, _, _)
dfs_visit(a, u, st) ==
    LET grey == [st EXCEPT !.color[u] = "grey"]
        after == TheOne({dfs_out_edges(a, es, 1, grey) : es \in {out_edges(a, u)}})
    IN [after EXCEPT !.color[u] = "black", !.finished = Append(@, u)]

dfs_out_edges(a, es, i, st) ==
    IF i > Len(es) THEN st
    ELSE
        LET v == a.edges[es[i]].target
            next == IF st.color[v] = "white" THEN dfs_visit(a, v, st)
                    ELSE IF st.color[v] = "grey" THEN [st EXCEPT !.back_edge = TRUE]
                    ELSE st
        IN TheOne({dfs_out_edges(a, es, i + 1, n) : n \in {next}})

DfsStart(a) ==
    [color |-> [v \in Kmers(a) |-> "white"], finished |-> <<>>, back_edge |-> FALSE]

\* boost::depth_first_visit from one vertex
depth_first_visit(a, s) == dfs_visit(a, s, DfsStart(a))

\* boost::depth_first_search: a visit from every vertex that is still white, in
\* the order of the vertex list
RECURSIVE dfs_all(_, _, _)
dfs_all(a, i, st) ==
    IF i > Len(a.vertices) THEN st
    ELSE
        LET v == a.vertices[i].kmer
            next == IF st.color[v] = "white" THEN dfs_visit(a, v, st) ELSE st
        IN TheOne({dfs_all(a, i + 1, n) : n \in {next}})

depth_first_search(a) == dfs_all(a, 1, DfsStart(a))

\* The distances of dag_shortest_paths: inf, or a sum of scores
Inf == [inf |-> TRUE, score |-> ZeroScore]
Dist(score) == [inf |-> FALSE, score |-> score]

\* closed_plus and std::less on distances
DistPlus(d, w) == IF d.inf THEN Inf ELSE Dist(ScorePlus(d.score, w))
DistLess(x, y) == IF x.inf THEN FALSE ELSE IF y.inf THEN TRUE ELSE ScoreLess(x.score, y.score)

\* boost::relax for every out-edge of u from the i-th on
RECURSIVE relax_out_edges(_, _, _, _, _)
relax_out_edges(a, u, es, i, sp) ==
    IF i > Len(es) THEN sp
    ELSE
        LET e == a.edges[es[i]]
            d == DistPlus(sp.distance[u], e.transition_score)
            next == IF DistLess(d, sp.distance[e.target])
                    THEN [distance |-> [sp.distance EXCEPT ![e.target] = d],
                          predecessors |-> [sp.predecessors EXCEPT ![e.target] = u]]
                    ELSE sp
        IN TheOne({relax_out_edges(a, u, es, i + 1, n) : n \in {next}})

RECURSIVE relax_in_order(_, _, _, _)
relax_in_order(a, order, i, sp) ==
    IF i > Len(order) THEN sp
    ELSE TheOne({relax_in_order(a, order, i + 1, n) :
                   n \in {relax_out_edges(a, order[i], es, 1, sp) :
                             es \in {out_edges(a, order[i])}}})

\* find_shortest_scoring_paths(from): boost::dag_shortest_paths sorts the vertices
\* it reaches from `from` topologically (and throws not_a_dag at a back edge), sets
\* every vertex to be its own predecessor and relaxes the out-edges of the sorted
\* vertices in order.
find_shortest_scoring_paths(a, from) ==
    LET topo == depth_first_visit(a, from)
        start == [distance |-> [v \in Kmers(a) |-> IF v = from THEN Dist(ZeroScore) ELSE Inf],
                  predecessors |-> [v \in Kmers(a) |-> v]]
    IN IF topo.back_edge THEN [thrown |-> "not_a_dag", predecessors |-> <<>>]
       ELSE [thrown |-> "none",
             predecessors |-> relax_in_order(a, Reverse(topo.finished), 1, start).predecessors]

(***************************************************************************)
(* The assembler: dominators, paths and reference flanks.                  *)
(***************************************************************************)
\* The vertices that can be reached from the vertices of `seen` on paths that do
\* not enter the vertex `avoid`.
RECURSIVE Reach(_, _, _)
Reach(a, seen, avoid) ==
    LET next == seen \cup ({a.edges[e].target :
                              e \in {i \in DOMAIN a.edges : a.edges[i].source \in seen}}
                           \ {avoid})
    IN IF next = seen THEN seen ELSE Reach(a, next, avoid)

\* build_dominator_tree(from): boost::lengauer_tarjan_dominator_tree gives every
\* vertex that `from` reaches, `from` excepted, its immediate dominator; the other
\* vertices keep null_vertex and are erased from the map.
build_dominator_tree(a, from) ==
    LET reached == Reach(a, {from}, null_vertex)
        without == [d \in reached |-> IF d = from THEN {} ELSE Reach(a, {from}, d)]
        sdom == [v \in reached |-> {d \in reached \ {v} : v \notin without[d]}]
    IN [v \in reached \ {from} |->
           CHOOSE d \in sdom[v] : \A d2 \in sdom[v] \ {d} : d2 \in sdom[d]]

\* extract_nondominant_reference(dominator_tree), as a set
extract_nondominant_reference(a, dominator_tree) ==
    {v \in DOMAIN dominator_tree :
        /\ is_reference_vertex(a, v)
        /\ v # reference_tail(a)
        /\ v \notin Range(dominator_tree)}

erase_all(path, dominator_tree) ==
    [v \in (DOMAIN dominator_tree) \ Range(path) |-> dominator_tree[v]]

is_dominated_by_path(vertex, path, dominator_tree) ==
    dominator_tree[vertex] \in Range(path)

\* is_on_path(v, predecessors, from): v is `from` or comes before it on the path
\* the predecessors lead back along
RECURSIVE is_on_path(_, _, _)
is_on_path(v, predecessors, from) ==
    IF v = from THEN TRUE
    ELSE IF from \notin DOMAIN predecessors THEN FALSE
    ELSE IF predecessors[from] = from THEN FALSE
    ELSE is_on_path(v, predecessors, predecessors[from])

\* The results of backtrack_until_nonreference. ok is FALSE when the walk leaves
\* what the code asserts: a vertex without predecessor or a missing edge.
Backtracked(alt, ref, count) == [ok |-> TRUE, alt |-> alt, ref |-> ref, count |-> count]
BacktrackFailed == [ok |-> FALSE, alt |-> <<>>, ref |-> <<>>, count |-> 0]

RECURSIVE backtrack_from(_, _, _, _, _)
backtrack_from(a, predecessors, v, from, count) ==
    IF v = reference_head(a) THEN Backtracked(v, from, count)
    ELSE
        LET e == edge(a, v, from)
        IN IF e = 0 \/ v \notin DOMAIN predecessors THEN BacktrackFailed
           ELSE IF ~is_reference_edge(a, e) THEN Backtracked(v, from, count)
           ELSE backtrack_from(a, predecessors, predecessors[v], v, count + 1)

backtrack_until_nonreference(a, predecessors, from) ==
    IF from \notin DOMAIN predecessors THEN BacktrackFailed
    ELSE backtrack_from(a, predecessors, predecessors[from], from, 1)

\* extract_nonreference_path(predecessors, from); the empty path stands for a walk
\* that leaves the graph or the predecessors
RECURSIVE nonreference_path_from(_, _, _, _)
nonreference_path_from(a, predecessors, from, result) ==
    IF from \notin DOMAIN predecessors \/ ~contains_kmer(a, from) THEN <<>>
    ELSE
        LET next == predecessors[from]
        IN IF ~contains_kmer(a, next) \/ (next = from /\ ~is_reference_vertex(a, next))
           THEN <<>>
           ELSE IF is_reference_vertex(a, next) THEN result
           ELSE nonreference_path_from(a, predecessors, next, <<next>> \o result)

extract_nonreference_path(a, predecessors, from) ==
    nonreference_path_from(a, predecessors, from, <<from>>)

back_base_of(v) == v[Len(v)]

\* The first base of every other k-mer in the place of the last.
make_sequence_of_front_bases(path) ==
    path[1] \o [i \in 1..(Len(path) - 1) |-> path[i + 1][1]]

\* make_sequence(path): the first k-mer and the last base of every other one
make_sequence(path) ==
    path[1] \o [i \in 1..(Len(path) - 1) |-> back_base_of(path[i + 1])]

\* make_reference(from, to) for a vertex `to`; <<"?">> stands for a walk that
\* comes to a vertex without reference out-edge before it comes to `to`
RECURSIVE make_reference_from(_, _, _, _, _)
make_reference_from(a, from, last, result, steps) ==
    IF from = last THEN result
    ELSE IF from = null_vertex \/ steps > Len(a.edges) THEN <<"?">>
    ELSE make_reference_from(a, next_reference(a, from), last,
                             Append(result, back_base_of(from)), steps + 1)

make_reference(a, from, to) ==
    IF from = to THEN <<>>
    ELSE make_reference_from(a, next_reference(a, from), to, from, 0)

\* remove_path(path) of a path of several vertices, from its i-th vertex on
RECURSIVE remove_path_from(_, _, _)
remove_path_from(a, path, i) ==
    IF i > Len(path)
    THEN LET back == path[Len(path)]
             es == out_edges(a, back)
         IN remove_vertex(IF es = <<>> THEN a ELSE remove_edge(a, es[1]), back)
    ELSE TheOne({remove_path_from(n, path, i + 1) :
                   n \in {remove_vertex(remove_edges(a, path[i - 1], path[i]), path[i - 1])}})

remove_path(a, path) ==
    IF Len(path) = 1 THEN clear_and_remove_vertex(a, path[1])
    ELSE LET es == in_edges(a, path[1])
         IN remove_path_from(IF es = <<>> THEN a ELSE remove_edge(a, es[1]), path, 2)

is_bridge(a, v) == in_degree(a, v) = 1 /\ out_degree(a, v) = 1

\* is_bridge_until(path): the place of the first vertex of the path that is not a
\* bridge, Len(path) + 1 when every vertex is one
is_bridge_until(a, path) ==
    LET found == {i \in DOMAIN path : ~is_bridge(a, path[i])}
    IN IF found = {} THEN Len(path) + 1 ELSE CHOOSE i \in found : \A j \in found : i <= j

joins_reference_only(a, v) ==
    /\ out_degree(a, v) = 1
    /\ is_reference_edge(a, out_edges(a, v)[1])

is_simple_deletion(a, e) ==
    /\ ~is_reference_edge(a, e)
    /\ is_reference_vertex(a, a.edges[e].source)
    /\ is_reference_vertex(a, a.edges[e].target)

\* is_on_path(e, path)
is_edge_on_path(a, e, path) ==
    \E i \in 1..(Len(path) - 1) : edge(a, path[i], path[i + 1]) = e

connects_to_path(a, e, path) ==
    \/ in_edges(a, path[1]) # <<>> /\ e = in_edges(a, path[1])[1]
    \/ out_edges(a, path[Len(path)]) # <<>> /\ e = out_edges(a, path[Len(path)])[1]

is_dependent_on_path(a, e, path) ==
    connects_to_path(a, e, path) \/ is_edge_on_path(a, e, path)

can_prune_reference_flanks(a) ==
    out_degree(a, reference_head(a)) = 1 \/ in_degree(a, reference_tail(a)) = 1

\* The two for_each loops of prune_reference_flanks
RECURSIVE prune_head_flank(_, _, _)
prune_head_flank(a, sorted_vertices, i) ==
    IF i > Len(sorted_vertices) THEN a
    ELSE
        LET u == sorted_vertices[i]
            b == remove_vertex(remove_edges(a, u, a.edges[out_edges(a, u)[1]].target), u)
            c == [b EXCEPT !.reference_kmers_ = Tail(@),
                           !.reference_head_position_ = @ + 1]
        IN TheOne({prune_head_flank(n, sorted_vertices, i + 1) : n \in {c}})

RECURSIVE prune_tail_flank(_, _, _)
prune_tail_flank(a, sorted_vertices, i) ==
    IF i > Len(sorted_vertices) THEN a
    ELSE
        LET u == sorted_vertices[i]
            b == remove_vertex(remove_edges(a, a.edges[in_edges(a, u)[1]].source, u), u)
            c == [b EXCEPT !.reference_kmers_ = SubSeq(@, 1, Len(@) - 1)]
        IN TheOne({prune_tail_flank(n, sorted_vertices, i + 1) : n \in {c}})

\* The length of the longest prefix of s whose elements satisfy P.
PrefixLength(s, P(_)) ==
    LET found == {i \in DOMAIN s : ~P(s[i])}
    IN IF found = {} THEN Len(s) ELSE (CHOOSE i \in found : \A j \in found : i <= j) - 1

\* The longest prefix of the sorted vertices that have one out-edge, a reference
\* edge, and the longest prefix of the other vertices, from the last sorted one
\* back, that have one in-edge, a reference edge.
HeadFlank(a, sorted_vertices) ==
    SubSeq(sorted_vertices, 1,
           PrefixLength(sorted_vertices,
               LAMBDA v : /\ out_degree(a, v) = 1
                          /\ is_reference_edge(a, out_edges(a, v)[1])))

TailFlank(a, reversed_rest) ==
    SubSeq(reversed_rest, 1,
           PrefixLength(reversed_rest,
               LAMBDA v : /\ in_degree(a, v) = 1
                          /\ is_reference_edge(a, in_edges(a, v)[1])))

\* prune_reference_flanks(): boost::topological_sort throws not_a_dag at a back
\* edge. The head flank is found and removed before the tail flank is looked for.
prune_reference_flanks(a) ==
    IF is_reference_empty(a) THEN Returned(a)
    ELSE TheOne({
        IF search.back_edge THEN Threw(a, "not_a_dag")
        ELSE TheOne({
            TheOne({Returned(prune_tail_flank(b, TailFlank(b, rest), 1)) :
                b \in {prune_head_flank(a, head, 1)},
                rest \in {SubSeq(search.finished, 1,
                                 Len(search.finished) - Len(head))}}) :
            head \in {HeadFlank(a, Reverse(search.finished))}}) :
        search \in {depth_first_search(a)}})

(***************************************************************************)
(* The assembler: pruning.                                                 *)
(***************************************************************************)
is_trivial_cycle(a, e) == a.edges[e].source = a.edges[e].target

\* boost::remove_edge_if(pred, graph_)
remove_edge_if(a, pred(_)) ==
    LET kept == SelectSeq(EdgeList(a), LAMBDA e : ~pred(e))
    IN [a EXCEPT !.edges = [i \in 1..Len(kept) |-> a.edges[kept[i]]]]

remove_trivial_nonreference_cycles(a) ==
    remove_edge_if(a, LAMBDA e : ~is_reference_edge(a, e) /\ is_trivial_cycle(a, e))

sum_source_in_edge_weight(a, e) ==
    TheOne({SumWeights(a, es, 1) : es \in {in_edges(a, a.edges[e].source)}})

sum_target_out_edge_weight(a, e) ==
    TheOne({SumWeights(a, es, 1) : es \in {out_edges(a, a.edges[e].target)}})

\* is_low_weight without its test of is_reference(e)
is_low_weight_of_any_edge(a, e, min_weight) ==
    IF a.edges[e].weight >= min_weight THEN FALSE
    ELSE IF sum_source_in_edge_weight(a, e) < min_weight THEN TRUE
    ELSE sum_source_in_edge_weight(a, e) + a.edges[e].weight
             + sum_target_out_edge_weight(a, e) < 3 * min_weight

is_low_weight(a, e, min_weight) ==
    IF is_reference_edge(a, e) THEN FALSE
    ELSE IF a.edges[e].weight >= min_weight THEN FALSE
    ELSE IF sum_source_in_edge_weight(a, e) < min_weight THEN TRUE
    ELSE sum_source_in_edge_weight(a, e) + a.edges[e].weight
             + sum_target_out_edge_weight(a, e) < 3 * min_weight

remove_low_weight_edges(a, min_weight) ==
    remove_edge_if(a, LAMBDA e : is_low_weight(a, e, min_weight))

\* clear_and_remove_vertex on every vertex of a set
clear_and_remove_all(a, vertices) ==
    [a EXCEPT !.vertices = SelectSeq(@, LAMBDA x : x.kmer \notin vertices),
              !.edges = SelectSeq(@, LAMBDA x : x.source \notin vertices
                                                 /\ x.target \notin vertices)]

\* boost::degree(v, graph_) == 0 for the vertices removed
remove_disconnected_vertices(a) ==
    clear_and_remove_all(a, {v \in Kmers(a) : out_degree(a, v) + in_degree(a, v) = 0})

\* find_reachable_kmers(from): the vertices a breadth first search from `from`
\* discovers, `from` included
find_reachable_kmers(a, from) == Reach(a, {from}, null_vertex)

\* The vertices a breadth first search of the reverse graph discovers.
RECURSIVE ReachBack(_, _)
ReachBack(a, seen) ==
    LET next == seen \cup {a.edges[e].source :
                              e \in {i \in DOMAIN a.edges : a.edges[i].target \in seen}}
    IN IF next = seen THEN seen ELSE ReachBack(a, next)

\* remove_vertices_that_cant_be_reached_from(v): the graph left and the vertices
\* removed
remove_vertices_that_cant_be_reached_from(a, v) ==
    LET removed == Kmers(a) \ find_reachable_kmers(a, v)
    IN [a |-> clear_and_remove_all(a, removed), removed |-> removed]

remove_vertices_that_cant_reach(a, v) ==
    IF is_reference_empty(a) THEN a
    ELSE clear_and_remove_all(a, Kmers(a) \ ReachBack(a, {v}))

\* boost::clear_out_edges(v, graph_)
clear_out_edges(a, v) == [a EXCEPT !.edges = SelectSeq(@, LAMBDA x : x.source # v)]

\* remove_vertices_past(v); thrown is "out_of_range" when reference_head() finds
\* the first reference k-mer gone from vertex_cache_
remove_vertices_past(a, v) ==
    LET reachables == find_reachable_kmers(a, v) \ {v}
        b == clear_out_edges(a, v)
        cycle_tails == {u \in reachables :
                           \E i \in DOMAIN b.edges :
                               b.edges[i].source = u /\ b.edges[i].target = v}
        back_reachables == IF cycle_tails = {} THEN {} ELSE ReachBack(b, cycle_tails)
        has_intersects == ((reachables \ cycle_tails) \cap back_reachables) # {}
        rest == (reachables \ cycle_tails) \ back_reachables
    IN IF ~has_intersects THEN Returned(clear_and_remove_all(b, rest))
       ELSE IF ~contains_kmer(b, reference_head(b)) THEN Threw(b, "out_of_range")
       ELSE LET r == remove_vertices_that_cant_be_reached_from(b, reference_head(b))
            IN Returned(clear_and_remove_all(r.a, rest \ r.removed))

\* What a prune call gives: the assembler it leaves, how it ended ("true", "false",
\* "out_of_range" for the std::out_of_range of vertex_cache_.at, "undefined" for
\* front() of an empty reference_kmers_), why it returned false, and the numbers of
\* the pruning steps after which assert(is_reference_unique_path()) does not hold.
Pruned(a, result, cause, failed) ==
    [a |-> a, result |-> result, cause |-> cause, failed |-> failed]

\* reference_head() and reference_tail() find their k-mers in vertex_cache_
reference_ends_cached(a) ==
    contains_kmer(a, reference_head(a)) /\ contains_kmer(a, reference_tail(a))

\* assert(is_reference_unique_path()) after pruning step `step`
asserted_unique_path(a, step, failed) ==
    IF reference_ends_cached(a) /\ is_reference_unique_path(a) THEN failed
    ELSE failed \cup {step}

\* prune: from the test of is_reference_empty() after the flanks were pruned
prune_after_flanks(a, failed) ==
    IF is_reference_empty(a) THEN Pruned(clear(a), "true", "none", failed)
    ELSE IF ~reference_ends_cached(a) THEN Pruned(a, "out_of_range", "none", failed)
    ELSE IF can_prune_reference_flanks(a) THEN Pruned(clear(a), "false", "still_prunable", failed)
    ELSE Pruned(a, "true", "none", asserted_unique_path(a, 7, failed))

\* prune: the try block around prune_reference_flanks
prune_flanks(a, failed) ==
    IF ~reference_ends_cached(a) THEN Pruned(a, "out_of_range", "none", failed)
    ELSE IF ~can_prune_reference_flanks(a)
    THEN prune_after_flanks(a, asserted_unique_path(a, 6, failed))
    ELSE TheOne({
        IF r.thrown = "not_a_dag" THEN Pruned(clear(a), "false", "not_a_dag", failed)
        ELSE prune_after_flanks(r.a, IF is_reference_empty(r.a) THEN failed
                                     ELSE asserted_unique_path(r.a, 6, failed)) :
        r \in {prune_reference_flanks(a)}})

\* prune: remove_vertices_that_cant_reach(reference_tail())
prune_cant_reach_tail(a, failed) ==
    IF ~contains_kmer(a, reference_tail(a)) THEN Pruned(a, "out_of_range", "none", failed)
    ELSE TheOne({
        IF num_kmers(b) < 2 THEN Pruned(b, "true", "none", failed)
        ELSE prune_flanks(b, asserted_unique_path(b, 5, failed)) :
        b \in {remove_vertices_that_cant_reach(a, reference_tail(a))}})

\* prune: remove_vertices_past(reference_tail())
prune_past_tail(a, failed) ==
    IF ~contains_kmer(a, reference_tail(a)) THEN Pruned(a, "out_of_range", "none", failed)
    ELSE TheOne({
        IF r.thrown # "none" THEN Pruned(r.a, r.thrown, "none", failed)
        ELSE IF num_kmers(r.a) < 2 THEN Pruned(r.a, "true", "none", failed)
        ELSE prune_cant_reach_tail(r.a, asserted_unique_path(r.a, 4, failed)) :
        r \in {remove_vertices_past(a, reference_tail(a))}})

\* prune: remove_vertices_that_cant_be_reached_from(reference_head())
prune_unreachable(a, failed) ==
    IF ~contains_kmer(a, reference_head(a)) THEN Pruned(a, "out_of_range", "none", failed)
    ELSE TheOne({
        IF num_kmers(b) < 2 THEN Pruned(b, "true", "none", failed)
        ELSE prune_past_tail(b, asserted_unique_path(b, 3, failed)) :
        b \in {remove_vertices_that_cant_be_reached_from(a, reference_head(a)).a}})

\* prune: remove_low_weight_edges and remove_disconnected_vertices
prune_low_weight(a, min_weight, failed) ==
    TheOne({
        IF num_kmers(b) < 2 THEN Pruned(b, "true", "none", failed)
        ELSE prune_unreachable(b, asserted_unique_path(b, 2, failed)) :
        b \in {remove_disconnected_vertices(remove_low_weight_edges(a, min_weight))}})

\* Assembler::prune(min_weight)
prune(a, min_weight) ==
    IF is_reference_empty(a) THEN Pruned(a, "undefined", "none", {})
    ELSE IF ~reference_ends_cached(a) THEN Pruned(a, "out_of_range", "none", {})
    ELSE IF ~is_reference_unique_path(a) THEN Pruned(clear(a), "false", "not_unique_path", {})
    ELSE IF num_kmers(a) < 2 THEN Pruned(a, "true", "none", {})
    ELSE TheOne({
        prune_low_weight(b, min_weight, asserted_unique_path(b, 1, {})) :
        b \in {remove_trivial_nonreference_cycles(a)}})

(***************************************************************************)
(* The assembler: variants and the extraction of bubbles.                  *)
(***************************************************************************)
Variant(begin_pos, ref, alt) == [begin_pos |-> begin_pos, ref |-> ref, alt |-> alt]

\* The characters of a sequence compare as their codes do.
CharCode(c) ==
    CASE c = "A" -> 65 [] c = "C" -> 67 [] c = "G" -> 71 [] c = "N" -> 78
      [] c = "T" -> 84 [] OTHER -> 63

\* operator< of two sequences: std::lexicographical_compare
RECURSIVE SequenceLessFrom(_, _, _)
SequenceLessFrom(x, y, i) ==
    IF i > Len(y) THEN FALSE
    ELSE IF i > Len(x) THEN TRUE
    ELSE IF CharCode(x[i]) # CharCode(y[i]) THEN CharCode(x[i]) < CharCode(y[i])
    ELSE SequenceLessFrom(x, y, i + 1)

SequenceLess(x, y) == SequenceLessFrom(x, y, 1)

\* operator<(Variant, Variant)
VariantLess(lhs, rhs) ==
    IF lhs.begin_pos = rhs.begin_pos
    THEN IF Len(lhs.ref) = Len(rhs.ref)
         THEN SequenceLess(lhs.alt, rhs.alt)
         ELSE Len(lhs.ref) < Len(rhs.ref)
    ELSE lhs.begin_pos < rhs.begin_pos

\* operator==(Variant, Variant)
VariantEqual(lhs, rhs) == lhs.begin_pos = rhs.begin_pos /\ lhs.alt = rhs.alt

\* std::sort with operator<: variants that neither is less than the other of have
\* the same begin_pos and alt and a ref of the same length
RECURSIVE InsertSorted(_, _, _)
InsertSorted(sorted, v, i) ==
    IF i > Len(sorted) THEN Append(sorted, v)
    ELSE IF VariantLess(v, sorted[i])
    THEN SubSeq(sorted, 1, i - 1) \o <<v>> \o SubSeq(sorted, i, Len(sorted))
    ELSE InsertSorted(sorted, v, i + 1)

RECURSIVE SortFrom(_, _, _)
SortFrom(s, i, sorted) ==
    IF i > Len(s) THEN sorted
    ELSE TheOne({SortFrom(s, i + 1, n) : n \in {InsertSorted(sorted, s[i], 1)}})

std_sort(s) == SortFrom(s, 1, <<>>)

\* std::unique with operator==: of every run of consecutive equal variants the
\* first is kept
RECURSIVE UniqueFrom(_, _, _)
UniqueFrom(s, i, kept) ==
    IF i > Len(s) THEN kept
    ELSE IF kept # <<>> /\ VariantEqual(kept[Len(kept)], s[i])
    THEN UniqueFrom(s, i + 1, kept)
    ELSE UniqueFrom(s, i + 1, Append(kept, s[i]))

std_unique(s) == UniqueFrom(s, 1, <<>>)

\* A step of extract_variants leaves the assembler a and the locals x; a step that
\* throws, or that leaves what the code asserts, ends the call without a result.
Step(a, x) == [a |-> a, x |-> x]
Stop(a, x, what) == [a |-> a, x |-> [x EXCEPT !.pc = "done", !.thrown = what]]

MaxBlockings == 50

\* extract_variants(max) up to the loop of extract_k_highest_scoring_bubble_paths
extract_variants_enter(a, max) ==
    IF is_empty(a) \/ is_all_reference(a)
    THEN Step(a, [NoExtraction EXCEPT !.pc = "done", !.max = max])
    ELSE IF ~contains_kmer(a, reference_head(a))
    THEN Stop(a, [NoExtraction EXCEPT !.max = max], "out_of_range")
    ELSE TheOne({
        Step(b, [NoExtraction EXCEPT
                    !.pc = "outer", !.max = max, !.k = max,
                    !.dominator_tree = build_dominator_tree(b, reference_head(b)),
                    !.num_remaining_alt_kmers = num_kmers(b) - num_reference_kmers(b),
                    !.max_blockings = MaxBlockings]) :
        b \in {set_all_edge_transition_scores_from(a, reference_head(a))}})

\* count_unreachables(predecessors)
count_unreachables(predecessors) ==
    Cardinality({v \in DOMAIN predecessors : predecessors[v] = v})

\* The loop from the backtrack of the shortest path on: the reference is the
\* shortest path, or the inner loop starts
backtrack_shortest_path(a, x0) ==
    TheOne({
        IF ~bt.ok THEN Stop(a, x, "undefined")
        ELSE IF bt.alt = reference_head(a) THEN
            TheOne({
                IF all_vertices_are_blocked(a, nondominant_reference)
                THEN Step(a, [x EXCEPT !.pc = "return"])
                ELSE Step(block_all_vertices(a, nondominant_reference), x) :
                nondominant_reference \in
                    {extract_nondominant_reference(a, x.dominator_tree)}})
        ELSE Step(a, [x EXCEPT !.pc = "inner", !.alt = bt.alt, !.ref = bt.ref,
                               !.rhs_kmer_count = bt.count]) :
        bt \in {backtrack_until_nonreference(a, x0.predecessors, reference_tail(a))},
        x \in {[x0 EXCEPT !.assert_failed = count_unreachables(x0.predecessors) # 1]}})

\* The loop from the test of blocked_edge on, were max_blockings not counted
unblock_or_stop_uncounted(a, x) ==
    IF x.blocked_edge = 0 THEN backtrack_shortest_path(a, x)
    ELSE
        LET e == EdgeOfId(a, x.blocked_edge)
        IN IF e = 0 THEN Stop(a, x, "undefined")
           ELSE IF ~is_on_path(a.edges[e].target, x.predecessors, reference_tail(a))
           THEN backtrack_shortest_path(
                    set_out_edge_transition_scores(a, a.edges[e].source),
                    [x EXCEPT !.blocked_edge = 0])
           ELSE IF \A o \in Range(out_edges(a, a.edges[e].target)) : is_blocked(a, o)
           THEN Step(a, [x EXCEPT !.pc = "return"])
           ELSE backtrack_shortest_path(a, x)

\* The loop from the test of blocked_edge on
unblock_or_stop(a, x) ==
    IF x.blocked_edge = 0 THEN backtrack_shortest_path(a, x)
    ELSE IF x.max_blockings = 0 THEN Step(a, [x EXCEPT !.pc = "return"])
    ELSE
        LET e == EdgeOfId(a, x.blocked_edge)
            y == [x EXCEPT !.max_blockings = @ - 1]
        IN IF e = 0 THEN Stop(a, y, "undefined")
           ELSE IF ~is_on_path(a.edges[e].target, y.predecessors, reference_tail(a))
           THEN backtrack_shortest_path(
                    set_out_edge_transition_scores(a, a.edges[e].source),
                    [y EXCEPT !.blocked_edge = 0])
           ELSE IF \A o \in Range(out_edges(a, a.edges[e].target)) : is_blocked(a, o)
           THEN Step(a, [y EXCEPT !.pc = "return"])
           ELSE backtrack_shortest_path(a, y)

\* One pass of the outer loop of extract_k_highest_scoring_bubble_paths up to its
\* inner loop
find_bubbles(a, x) ==
    IF ~(x.k > 0 /\ x.num_remaining_alt_kmers # 0)
    THEN Step(a, [x EXCEPT !.pc = "return"])
    ELSE TheOne({
        IF sp.thrown # "none" THEN Stop(a, x, sp.thrown)
        ELSE unblock_or_stop(a, [x EXCEPT !.predecessors = sp.predecessors]) :
        sp \in {find_shortest_scoring_paths(a, reference_head(a))}})

\* The removal of a simple deletion: the edge from the vertex `alt` to x.ref
remove_simple_deletion(a, x, alt) ==
    LET e == EdgeOfId(a, x.blocked_edge)
        b == set_out_edge_transition_scores(remove_edges(a, alt, x.ref), alt)
    IN IF x.blocked_edge # 0 /\ e = 0 THEN Stop(a, x, "undefined")
       ELSE IF x.blocked_edge # 0 /\ a.edges[e].source = alt /\ a.edges[e].target = x.ref
       THEN Step(b, [x EXCEPT !.blocked_edge = 0])
       ELSE Step(b, x)

\* The removal of a path of bridges, with what the code does before and after it
remove_bridge(a, x, path, vertex_before_bridge) ==
    LET e == EdgeOfId(a, x.blocked_edge)
        b == set_out_edge_transition_scores(remove_path(a, path), vertex_before_bridge)
        y == [x EXCEPT !.dominator_tree = erase_all(path, @),
                       !.num_remaining_alt_kmers = @ - Len(path)]
    IN IF path = <<>> \/ (x.blocked_edge # 0 /\ e = 0) THEN Stop(a, x, "undefined")
       ELSE IF x.blocked_edge # 0 /\ is_dependent_on_path(a, e, path)
       THEN Step(b, [y EXCEPT !.blocked_edge = 0])
       ELSE Step(b, y)

\* The loop that removes the alt path of a bubble, or blocks the way into it
RECURSIVE remove_alt_path(_, _, _, _)
remove_alt_path(a, x, alt_path, vertex_before_bridge) ==
    IF alt_path = <<>> THEN Step(a, x)
    ELSE
        LET i == is_bridge_until(a, alt_path)
            bifurication_point == alt_path[i]
        IN IF i > Len(alt_path)
           THEN remove_bridge(a, x, alt_path, vertex_before_bridge)
           ELSE IF joins_reference_only(a, bifurication_point)
           THEN remove_bridge(a, x, SubSeq(alt_path, 1, i - 1), vertex_before_bridge)
           ELSE IF bifurication_point \notin DOMAIN x.dominator_tree
           THEN Stop(a, x, "out_of_range")
           ELSE IF is_dominated_by_path(bifurication_point, SubSeq(alt_path, 1, i - 1),
                                        x.dominator_tree)
           THEN remove_alt_path(a, x, SubSeq(alt_path, i + 1, Len(alt_path)),
                                bifurication_point)
           ELSE IF i # 1
           THEN LET e == edge(a, alt_path[i - 1], bifurication_point)
                IN IF e = 0 THEN Stop(a, x, "undefined")
                   ELSE Step(block_edge(a, e), [x EXCEPT !.blocked_edge = a.edges[e].id])
           ELSE Step(block_all_in_edges(a, alt_path[1]), x)

\* The end of a pass of the inner loop: the backtrack from ref_before_bubble
next_bubble(st, ref_before_bubble) ==
    IF st.x.pc = "done" THEN st
    ELSE TheOne({
        IF ~bt.ok THEN Stop(st.a, st.x, "undefined")
        ELSE Step(st.a, [st.x EXCEPT
                           !.alt = bt.alt, !.ref = bt.ref,
                           !.rhs_kmer_count = @ + bt.count,
                           !.k = IF @ > 0 THEN @ - 1 ELSE @,
                           !.pc = IF bt.alt = reference_head(st.a)
                                  THEN "flanks" ELSE "inner"]) :
        bt \in {backtrack_until_nonreference(st.a, st.x.predecessors, ref_before_bubble)}})

\* One pass of the inner loop: a variant is put at the front of the result and its
\* alt path is removed or blocked
extract_bubble(a, x) ==
    TheOne({
        IF alt_path = <<>> THEN Stop(a, x, "undefined")
        ELSE
            LET ref_before_bubble == x.predecessors[alt_path[1]]
                ref_seq == make_reference(a, ref_before_bubble, x.ref)
                alt_seq == make_sequence(<<ref_before_bubble>> \o alt_path)
                rhs_kmer_count == x.rhs_kmer_count + count_kmers(ref_seq, a.k_)
                pos == a.reference_head_position_ + reference_size(a)
                           - sequence_length(rhs_kmer_count, a.k_)
                y == [x EXCEPT !.result = <<Variant(pos, ref_seq, alt_seq)>> \o @,
                               !.rhs_kmer_count = rhs_kmer_count - 1]
                edge_to_alt == edge(a, x.alt, x.ref)
            IN IF ref_seq = <<"?">> \/ edge_to_alt = 0 THEN Stop(a, x, "undefined")
               ELSE TheOne({next_bubble(removed, ref_before_bubble) :
                      removed \in
                        {IF Len(alt_path) = 1 /\ is_simple_deletion(a, edge_to_alt)
                         THEN remove_simple_deletion(a, y, alt_path[1])
                         ELSE remove_alt_path(a, y, alt_path, ref_before_bubble)}}) :
        alt_path \in {extract_nonreference_path(a, x.predecessors, x.alt)}})

\* The assertions at the end of a pass of the outer loop, and the assertion of
\* prune_reference_flanks on the sorted vertices
HeadAndTailJoined(a) ==
    out_degree(a, reference_head(a)) > 0 /\ in_degree(a, reference_tail(a)) > 0

HeadFirstAndTailLast(a) ==
    \A search \in {depth_first_search(a)} :
        search.back_edge \/ search.finished = <<>> \/
            /\ search.finished[Len(search.finished)] = reference_head(a)
            /\ search.finished[1] = reference_tail(a)

\* The end of a pass of the outer loop
prune_flanks_after_pass(a, x0) ==
    IF ~can_prune_reference_flanks(a)
    THEN Step(a, [x0 EXCEPT !.pc = "outer", !.assert_failed = ~HeadAndTailJoined(a)])
    ELSE TheOne({
        IF pruned.thrown # "none" THEN Stop(pruned.a, x, pruned.thrown)
        ELSE IF is_reference_empty(pruned.a) THEN Stop(pruned.a, x, "undefined")
        ELSE IF ~contains_kmer(pruned.a, reference_head(pruned.a))
        THEN Stop(pruned.a, x, "out_of_range")
        ELSE Step(pruned.a,
                  [x EXCEPT !.pc = "outer",
                            !.dominator_tree =
                                build_dominator_tree(pruned.a, reference_head(pruned.a))]) :
        pruned \in {prune_reference_flanks(a)},
        x \in {[x0 EXCEPT !.assert_failed =
                    ~HeadAndTailJoined(a) \/ ~HeadFirstAndTailLast(a)]}})

(***************************************************************************)
(* The calls on an assembler.                                              *)
(***************************************************************************)
\* The read manager of the assembler's process, left as constructed.
RMIdle ==
    /\ file_size = [p \in Paths |-> p]
    /\ max_open_files_ = NumPaths
    /\ open_readers_ = [p \in Paths |-> p]
    /\ closed_readers_ = {}
    /\ mutex_ = NoThread
    /\ ThreadInit
    /\ swap_call = NoSwapCall

AsmInit ==
    /\ RMIdle
    /\ assembler = Assembler(KmerSize)
    /\ asm_call = NoCall
    /\ extraction = NoExtraction
    /\ GeneratorIdle

\* A call is made when no other call is in progress; max_calls bounds the calls.
CanCall(max_calls) == asm_call.n < max_calls /\ extraction.pc = "idle"

InsertRead(sequence, max_calls) ==
    /\ CanCall(max_calls)
    /\ assembler' = insert_read(assembler, sequence)
    /\ asm_call' = [asm_call EXCEPT !.n = @ + 1, !.op = "insert_read",
                                    !.outcome = "returned", !.prune = NoPrune]
    /\ UNCHANGED <<rmvars, extraction, genvars, swap_call>>

InsertReference(sequence, max_calls) ==
    /\ CanCall(max_calls)
    /\ \E r \in {insert_reference(assembler, sequence)} :
          /\ assembler' = r.a
          /\ asm_call' = [n |-> asm_call.n + 1,
                          op |-> "insert_reference",
                          outcome |-> IF r.thrown = "none" THEN "returned" ELSE r.thrown,
                          reference_inserted |->
                              asm_call.reference_inserted \/ r.thrown = "none",
                          prune |-> NoPrune,
                          input |-> asm_call.input]
    /\ UNCHANGED <<rmvars, extraction, genvars, swap_call>>

Clear(max_calls) ==
    /\ CanCall(max_calls)
    /\ assembler' = clear(assembler)
    /\ asm_call' = [n |-> asm_call.n + 1, op |-> "clear", outcome |-> "returned",
                    reference_inserted |-> FALSE, prune |-> NoPrune,
                    input |-> [asm_call.input EXCEPT !.inserted = 0]]
    /\ UNCHANGED <<rmvars, extraction, genvars, swap_call>>

AsmNext ==
    \/ \E sequence \in Sequences : InsertRead(sequence, MaxCalls)
    \/ \E sequence \in Sequences : InsertReference(sequence, MaxCalls)
    \/ Clear(MaxCalls)

AsmSpec == AsmInit /\ [][AsmNext]_vars

(***************************************************************************)
(* Pruning the graphs of short sequences.                                  *)
(***************************************************************************)
MaxMinWeight == 2
MaxPruneCalls == 5
MaxInserts == 3

\* The canonical sequences of two bases that hold a k-mer.
PruneSequences == UNION {[1..n -> {"A", "C"}] : n \in KmerSize..MaxSeqLen}

\* No call follows one that ended in undefined behaviour.
Prune(min_weight, max_calls) ==
    /\ CanCall(max_calls)
    /\ asm_call.outcome # "undefined"
    /\ \E r \in {prune(assembler, min_weight)} :
          /\ assembler' = r.a
          /\ asm_call' = [asm_call EXCEPT
                            !.n = @ + 1, !.op = "prune", !.outcome = r.result,
                            !.prune = [min_weight |-> min_weight, result |-> r.result,
                                       cause |-> r.cause,
                                       failed |-> r.failed]]
    /\ UNCHANGED <<rmvars, extraction, genvars, swap_call>>

PruneInit == AsmInit

PruneNext ==
    \/ \E sequence \in PruneSequences : InsertRead(sequence, MaxInserts)
    \/ \E sequence \in PruneSequences : InsertReference(sequence, MaxInserts)
    \/ \E min_weight \in 1..MaxMinWeight : Prune(min_weight, MaxPruneCalls)

PruneSpec == PruneInit /\ [][PruneNext]_vars

(***************************************************************************)
MaxVariants == 3
MaxPoolCalls == 5

ReferencePool ==
    {<<"A", "A", "T", "T", "C", "T", "G">>}

ReadPool ==
    {<<"A", "A", "G", "T", "T", "C", "C", "T", "G">>,
     <<"A", "A", "T", "G">>,
     <<"A", "T", "C">>,
     <<"A", "A", "C", "T", "G">>}

\* A step of the call: the assembler and the locals after it. When an assertion of
\* the code fails in the step, the build decides whether the call goes on.
Advance(st) ==
    \E abort \in (IF st.x.assert_failed THEN BOOLEAN ELSE {FALSE}) :
        \E x \in {IF abort THEN [st.x EXCEPT !.pc = "done", !.thrown = "assertion",
                                            !.assert_failed = FALSE,
                                            !.steps = IF @ < MaxSteps THEN @ + 1 ELSE @]
                  ELSE [st.x EXCEPT !.assert_failed = FALSE,
                                    !.steps = IF @ < MaxSteps THEN @ + 1 ELSE @]} :
            /\ assembler' = st.a
            /\ extraction' = x
            /\ asm_call' = IF x.pc # "done" THEN asm_call
                           ELSE [asm_call EXCEPT !.outcome =
                                    IF x.thrown = "none" THEN "returned" ELSE x.thrown]
            /\ UNCHANGED <<rmvars, genvars, swap_call>>

\* extract_variants(max) is called on a graph that is empty, or all reference, or
\* has a reference; otherwise the call reads the front of an empty reference_kmers_.
ExtractVariants(max) ==
    /\ extraction.pc = "idle"
    /\ is_empty(assembler) \/ is_all_reference(assembler) \/ ~is_reference_empty(assembler)
    /\ \E st \in {extract_variants_enter(assembler, max)} :
          /\ assembler' = st.a
          /\ extraction' = st.x
          /\ asm_call' = [asm_call EXCEPT
                            !.n = @ + 1, !.op = "extract_variants",
                            !.outcome = IF st.x.pc # "done" THEN "running"
                                        ELSE IF st.x.thrown = "none" THEN "returned"
                                        ELSE st.x.thrown]
    /\ UNCHANGED <<rmvars, genvars, swap_call>>

FindBubbles ==
    /\ extraction.pc = "outer"
    /\ \E st \in {find_bubbles(assembler, extraction)} : Advance(st)

ExtractBubble ==
    /\ extraction.pc = "inner"
    /\ \E st \in {extract_bubble(assembler, extraction)} : Advance(st)

PruneFlanks ==
    /\ extraction.pc = "flanks"
    /\ \E st \in {prune_flanks_after_pass(assembler, extraction)} : Advance(st)

\* The return of extract_variants: the result of the loop is sorted and the
\* duplicates that follow one another are erased.
ReturnVariants ==
    /\ extraction.pc = "return"
    /\ Advance(Step(assembler,
                    [extraction EXCEPT !.pc = "done",
                                       !.returned = std_unique(std_sort(extraction.result))]))

VarInit == AsmInit

VarNext ==
    \/ \E sequence \in ReadPool : InsertRead(sequence, MaxPoolCalls)
    \/ \E sequence \in ReferencePool : InsertReference(sequence, MaxPoolCalls)
    \/ \E max \in 0..MaxVariants : ExtractVariants(max)
    \/ FindBubbles
    \/ ExtractBubble
    \/ PruneFlanks
    \/ ReturnVariants

VarSpec == VarInit /\ [][VarNext]_vars

(***************************************************************************)
(* The extraction of variants from graphs that hold a reference only.      *)
(***************************************************************************)
MaxRefCalls == 3

\* The caller takes the variants extract_variants returned.
TakeVariants ==
    /\ extraction.pc = "done"
    /\ extraction.thrown = "none"
    /\ asm_call.n < MaxRefCalls
    /\ extraction' = NoExtraction
    /\ UNCHANGED <<rmvars, assembler, asm_call, genvars, swap_call>>

RefInit == AsmInit

RefNext ==
    \/ \E sequence \in Sequences : InsertReference(sequence, MaxRefCalls)
    \/ \E max \in 0..MaxVariants : ExtractVariants(max)
    \/ TakeVariants

RefSpec == RefInit /\ [][RefNext]_vars

(***************************************************************************)
(* A reference and copies of a read that differs from it in one base.      *)
(***************************************************************************)
SnvKmerSizes == {2, 5}
SnvLen == 5
MaxCopies == 2
MaxSnvCalls == 3

\* The reference sequences: where k is 2 every sequence of SnvLen bases that
\* begins with A, and where k is 5 the reference of scenario S1 of spec.md and a
\* reference that has no k-mer twice.
SnvPool(k) ==
    IF k = 2 THEN {sequence \in [1..SnvLen -> {"A", "C", "G"}] : sequence[1] = "A"}
    ELSE {<<"A", "C", "G", "T", "A", "C", "G", "T", "A", "C", "G", "T", "A", "C">>,
          <<"A", "A", "C", "C", "G", "G", "T", "T", "A", "C", "G", "T", "A", "G">>}

\* The places of the base that differs, counted from 1: any where k is 2, and
\* where k is 5 the place of scenario S1, which is position 7.
SnvPlaces(k) == IF k = 2 THEN 1..SnvLen ELSE {8}

\* The sequences that differ from sequence in the base at one of the places.
Substitutions(sequence, places) ==
    {[sequence EXCEPT ![i] = b] : i \in places, b \in Bases} \ {sequence}

\* A reference, and copies of a read that differs from it in one base.
SnvInputs(k) ==
    UNION {{[reference |-> reference, read |-> read, copies |-> copies, inserted |-> 0] :
               read \in Substitutions(reference, SnvPlaces(k)), copies \in 1..MaxCopies} :
           reference \in SnvPool(k)}

RECURSIVE insert_reads(_, _, _)
insert_reads(a, sequence, count) ==
    IF count = 0 THEN a ELSE insert_reads(insert_read(a, sequence), sequence, count - 1)

\* The k-mers of a sequence.
KmersIn(sequence, k) == {Kmer(sequence, j, k) : j \in 1..count_kmers(sequence, k)}

\* The caller gives insert_read the copies of the read, one call after the other.
InsertReadCopies(max_calls) ==
    /\ CanCall(max_calls)
    /\ asm_call.input.inserted = 0
    /\ asm_call.input.copies > 0
    /\ assembler' = insert_reads(assembler, asm_call.input.read, asm_call.input.copies)
    /\ asm_call' = [asm_call EXCEPT !.n = @ + 1, !.op = "insert_read",
                                    !.outcome = "returned", !.prune = NoPrune,
                                    !.input.inserted = asm_call.input.copies]
    /\ UNCHANGED <<rmvars, extraction, genvars, swap_call>>

SnvInit ==
    /\ RMIdle
    /\ \E k \in SnvKmerSizes :
          /\ assembler = Assembler(k)
          /\ asm_call \in {[NoCall EXCEPT !.input = input] : input \in SnvInputs(k)}
    /\ extraction = NoExtraction
    /\ GeneratorIdle

SnvNext ==
    \/ InsertReference(asm_call.input.reference, MaxSnvCalls)
    \/ InsertReadCopies(MaxSnvCalls)
    \/ \E min_weight \in 1..MaxMinWeight : Prune(min_weight, MaxSnvCalls)
    \/ \E max \in {1, MaxVariants} : ExtractVariants(max)
    \/ FindBubbles
    \/ ExtractBubble
    \/ PruneFlanks
    \/ ReturnVariants

SnvSpec == SnvInit /\ [][SnvNext]_vars

(***************************************************************************)
(* A read inserted into the graphs of earlier reads and references.        *)
(***************************************************************************)
MaxReadCalls == 3

\* The reads and the references of the earlier calls.
EarlierPool ==
    {<<"A", "A", "A", "A">>, <<"A", "C", "A">>, <<"C", "C", "A", "C">>}

\* The caller holds one read: any sequence, shorter than k and with N included.
ReadInit ==
    /\ RMIdle
    /\ assembler = Assembler(KmerSize)
    /\ asm_call \in {[NoCall EXCEPT !.input.read = read, !.input.copies = 1] : read \in Sequences}
    /\ extraction = NoExtraction
    /\ GeneratorIdle

ReadNext ==
    \/ \E sequence \in EarlierPool : InsertRead(sequence, MaxReadCalls)
    \/ \E sequence \in EarlierPool : InsertReference(sequence, MaxReadCalls)
    \/ InsertReadCopies(MaxReadCalls)

ReadSpec == ReadInit /\ [][ReadNext]_vars

(***************************************************************************)
(* A reference inserted into the graphs of earlier reads.                  *)
(***************************************************************************)
\* The caller holds one reference: any sequence, shorter than k and with N
\* included.
HeldInit ==
    /\ RMIdle
    /\ assembler = Assembler(KmerSize)
    /\ asm_call \in {[NoCall EXCEPT !.input.reference = reference] : reference \in Sequences}
    /\ extraction = NoExtraction
    /\ GeneratorIdle

HeldNext ==
    \/ \E sequence \in EarlierPool : InsertRead(sequence, MaxReadCalls)
    \/ InsertReference(asm_call.input.reference, MaxReadCalls)

HeldSpec == HeldInit /\ [][HeldNext]_vars

(***************************************************************************)
(* Reads, references and prune calls, four calls deep.                     *)
(***************************************************************************)
MaxOnceCalls == 4

OnceInit == AsmInit

OnceNext ==
    \/ \E sequence \in EarlierPool : InsertRead(sequence, MaxOnceCalls)
    \/ \E sequence \in EarlierPool : InsertReference(sequence, MaxOnceCalls)
    \/ \E min_weight \in 1..MaxMinWeight : Prune(min_weight, MaxOnceCalls)

OnceSpec == OnceInit /\ [][OnceNext]_vars

(***************************************************************************)
(* The extraction of variants from pruned graphs of chosen sequences.      *)
(***************************************************************************)
MaxBubbleCalls == 4

\* With the reference AACTAT the reads ACGGAT and AAGG make two alt paths that
\* meet in the k-mer GG before they come back to the reference; ACTTAT and AACAT
\* make a bubble each.
BubbleReferences == {<<"A", "A", "C", "T", "A", "T">>}

BubbleReads ==
    {<<"A", "C", "G", "G", "A", "T">>, <<"A", "A", "G", "G">>,
     <<"A", "C", "T", "T", "A", "T">>, <<"A", "A", "C", "A", "T">>}

BubbleInit == AsmInit

BubbleNext ==
    \/ \E sequence \in BubbleReads : InsertRead(sequence, MaxBubbleCalls)
    \/ \E sequence \in BubbleReferences : InsertReference(sequence, MaxBubbleCalls)
    \/ \E min_weight \in 1..MaxMinWeight : Prune(min_weight, MaxBubbleCalls)
    \/ \E max \in 0..MaxVariants : ExtractVariants(max)
    \/ FindBubbles
    \/ ExtractBubble
    \/ PruneFlanks
    \/ ReturnVariants

BubbleSpec == BubbleInit /\ [][BubbleNext]_vars

(***************************************************************************)
(* Properties of the assembler.                                            *)
(***************************************************************************)
ReferenceVertices(a) ==
    {a.vertices[i].kmer : i \in {j \in DOMAIN a.vertices : a.vertices[j].is_reference}}

NumReferenceOutEdges(a, v) ==
    Cardinality({i \in DOMAIN a.edges : a.edges[i].source = v /\ a.edges[i].is_reference})

\* every non-tail reference vertex has exactly one outgoing reference edge, and
\* the reference tail has none
ReferenceIsUniquePath(a) ==
    \A v \in ReferenceVertices(a) :
        NumReferenceOutEdges(a, v) =
            (IF v = a.reference_kmers_[Len(a.reference_kmers_)] THEN 0 ELSE 1)

\* no k-mer occurs more than once in the inserted reference sequence
ReferenceKmersDistinct(a) ==
    \A i, j \in DOMAIN a.reference_kmers_ :
        i # j => a.reference_kmers_[i] # a.reference_kmers_[j]

\* C3 as stated: after insert_reference(s) has succeeded, for every reference
\* sequence (a k-mer may occur in it more than once) and every set and order of
\* insert_read calls before or after it, each non-tail reference vertex has exactly
\* one outgoing reference edge and the reference tail has none.
C3_ReferenceUniquePath ==
    asm_call.reference_inserted => ReferenceIsUniquePath(assembler)

\* C3 for reference sequences in which no k-mer occurs more than once: after
\* insert_reference(s) has succeeded, whatever insert_read calls came before or
\* after it, each non-tail reference vertex has exactly one outgoing reference edge
\* and the reference tail has none.
C3_UniquePathOfDistinctKmers ==
    (asm_call.reference_inserted /\ ReferenceKmersDistinct(assembler))
        => ReferenceIsUniquePath(assembler)

\* C3 witness: a reference of several distinct k-mers was merged into a graph that
\* a read had populated, and a read inserted after it branches off a reference vertex
C3_Witness ==
    /\ asm_call.reference_inserted
    /\ asm_call.op = "insert_read"
    /\ ReferenceKmersDistinct(assembler)
    /\ Len(assembler.reference_kmers_) >= 2
    /\ ~assembler.vertices[1].is_reference
    /\ \E i \in DOMAIN assembler.edges :
          /\ assembler.edges[i].source \in ReferenceVertices(assembler)
          /\ ~assembler.edges[i].is_reference
    /\ ReferenceIsUniquePath(assembler)

\* A1: the graph has at most one edge for each ordered pair of vertices
AtMostOneEdgePerPair(a) ==
    \A i, j \in DOMAIN a.edges :
        (a.edges[i].source = a.edges[j].source /\ a.edges[i].target = a.edges[j].target)
            => i = j

\* C17: after any sequence of insert_reference and insert_read calls the graph has
\* at most one edge for each ordered pair of vertices, also when the reference or a
\* read holds the same pair of consecutive k-mers more than once.
C17_AtMostOneEdgePerPair == AtMostOneEdgePerPair(assembler)

(***************************************************************************)
(* Properties of prune.                                                    *)
(***************************************************************************)
\* The last call was prune and it returned true / false.
PruneReturnedTrue == asm_call.op = "prune" /\ asm_call.outcome = "true"
PruneReturnedFalse == asm_call.op = "prune" /\ asm_call.outcome = "false"

\* The step is a prune call with the min_weight of the prune call before it, which
\* returned true.
PruneRepeated ==
    /\ PruneReturnedTrue
    /\ asm_call'.op = "prune"
    /\ asm_call'.n = asm_call.n + 1
    /\ asm_call'.prune.min_weight = asm_call.prune.min_weight

\* C14: if prune(w) returns true, calling prune(w) again returns true and leaves
\* the graph unchanged (vertices, edges, weights, reference k-mers and
\* reference_head_position_).
C14_PruneIdempotent ==
    [][PruneRepeated => (asm_call'.outcome = "true" /\ assembler' = assembler)]_vars

\* The k-mers of reference_kmers_ are vertices of the graph, each has one reference
\* out-edge, to the k-mer after it, and the last has none.
ReferenceKmersFormPath(a) ==
    /\ \A i \in DOMAIN a.reference_kmers_ : contains_kmer(a, a.reference_kmers_[i])
    /\ \A i \in DOMAIN a.reference_kmers_ :
           {a.edges[e].target :
               e \in {j \in DOMAIN a.edges : /\ a.edges[j].source = a.reference_kmers_[i]
                                             /\ a.edges[j].is_reference}}
             = (IF i = Len(a.reference_kmers_) THEN {} ELSE {a.reference_kmers_[i + 1]})
    /\ \A i \in DOMAIN a.reference_kmers_ :
           NumReferenceOutEdges(a, a.reference_kmers_[i])
             = (IF i = Len(a.reference_kmers_) THEN 0 ELSE 1)

\* C15: after any prune call that returns true and leaves a non-empty graph, the
\* reference k-mers form a unique path from the reference head to the reference
\* tail, and the same held after each pruning step of the call.
C15_PrunedReferenceIsUniquePath ==
    (PruneReturnedTrue /\ ~is_empty(assembler))
        => (ReferenceKmersFormPath(assembler) /\ asm_call.prune.failed = {})

\* C15 witness: prune returned true after it removed a reference flank, and left a
\* graph with a reference path of several k-mers and edges off the reference.
C15_Witness ==
    /\ PruneReturnedTrue
    /\ assembler.reference_head_position_ > 0
    /\ Len(assembler.reference_kmers_) > 1
    /\ ~is_all_reference(assembler)

\* The reference of the assembler a prune call is made on is not a unique path.
NotUniquePathOnEntry ==
    ~is_reference_empty(assembler) /\ ~ReferenceKmersFormPath(assembler)

\* The step is a prune call on an assembler that has a reference.
PruneCalled ==
    /\ asm_call'.op = "prune"
    /\ asm_call'.n = asm_call.n + 1
    /\ ~is_reference_empty(assembler)

\* C16: prune returns false exactly when the reference is not a unique path on
\* entry, the graph is found not to be a DAG during flank pruning, or reference
\* flanks are still prunable after flank pruning; whenever it returns false the
\* assembler is empty on return.
C16_FalseExactlyWhenUnusable ==
    [][PruneCalled =>
          /\ (asm_call'.outcome = "false")
                <=> \/ NotUniquePathOnEntry
                    \/ asm_call'.prune.cause \in {"not_a_dag", "still_prunable"}
          /\ (asm_call'.outcome = "false")
                => (is_empty(assembler') /\ is_reference_empty(assembler'))]_vars

\* C16 for the calls on an assembler whose reference k-mers are all in the graph.
C16_WhenReferenceInGraph ==
    [][(PruneCalled /\ reference_ends_cached(assembler)) =>
          /\ (asm_call'.outcome = "false")
                <=> \/ NotUniquePathOnEntry
                    \/ asm_call'.prune.cause \in {"not_a_dag", "still_prunable"}
          /\ (asm_call'.outcome = "false")
                => (is_empty(assembler') /\ is_reference_empty(assembler'))]_vars

(***************************************************************************)
(* Properties of extract_variants.                                         *)
(***************************************************************************)
\* The step is a call of extract_variants on an empty assembler or on the graph of
\* a reference sequence that insert_reference accepted.
ExtractFromReferenceOnly ==
    /\ asm_call'.op = "extract_variants"
    /\ asm_call'.n = asm_call.n + 1
    /\ is_empty(assembler) \/ asm_call.reference_inserted

\* C18: for every reference sequence s that insert_reference accepts,
\* extract_variants (with any max) on the graph that holds only s returns the
\* empty list and leaves the graph unchanged, as it does on an empty assembler and
\* when it is called again.
C18_NoVariantsOfReference ==
    [][ExtractFromReferenceOnly =>
          /\ extraction'.pc = "done"
          /\ extraction'.thrown = "none"
          /\ extraction'.returned = <<>>
          /\ assembler' = assembler]_vars

\* C18 witness: extract_variants has returned for the second time on the graph of
\* a reference of several k-mers, one of them twice in it.
C18_Witness ==
    /\ asm_call.op = "extract_variants"
    /\ asm_call.n = 3
    /\ asm_call.reference_inserted
    /\ extraction.pc = "done"
    /\ Len(assembler.reference_kmers_) > 2
    /\ ~ReferenceKmersDistinct(assembler)

\* extract_variants has returned a list of variants
VariantsReturned == extraction.pc = "done" /\ extraction.thrown = "none"

\* the returned list is strictly ascending by (begin_pos, |ref|, alt)
ReturnedStrictlyAscending ==
    \A i, j \in DOMAIN extraction.returned :
        i < j => VariantLess(extraction.returned[i], extraction.returned[j])

\* no two returned variants have the same begin_pos and alt
ReturnedDistinct ==
    \A i, j \in DOMAIN extraction.returned :
        i # j => ~VariantEqual(extraction.returned[i], extraction.returned[j])

\* C5: extract_variants(max) returns at most max variants, for every graph and
\* every max >= 0, also when the shortest path of one pass holds several bubbles.
C5_AtMostMaxVariants ==
    VariantsReturned => Len(extraction.returned) <= extraction.max

\* C6: the list extract_variants returns is strictly ascending by
\* (begin_pos, |ref|, alt) and holds no two variants with the same (begin_pos, alt),
\* whatever bubbles the loop found, bubbles that share begin_pos and alt but differ
\* in the length of ref included.
C6_SortedAndDeduplicated ==
    VariantsReturned => (ReturnedStrictlyAscending /\ ReturnedDistinct)

\* The returned list is always strictly ascending.
ReturnedIsSorted == VariantsReturned => ReturnedStrictlyAscending

\* No call on the graphs of the pools reaches what the source leaves undefined.
NothingUndefined == extraction.thrown # "undefined"

(***************************************************************************)
(* The haplotype generator: regions, alleles and the haplotype tree.       *)
(***************************************************************************)
NumSites == 3
MaxLimit == 4
MaxDepth == 2
MaxSetterCalls == 2
MaxGenerateCalls == 3

\* A region of the contig is the half-open interval [begin, end); end = begin makes
\* the empty region at a position.
region_less(a, b) == a.begin < b.begin \/ (a.begin = b.begin /\ a.end < b.end)
region_less_equal(a, b) == a = b \/ region_less(a, b)
begins_before(a, b) == a.begin < b.begin
ends_before(a, b) == a.end < b.end
is_after(a, b) == a # b /\ b.end <= a.begin
contains(a, b) == a.begin <= b.begin /\ b.end <= a.end
overlap_size(a, b) == Min(a.end, b.end) - Max(a.begin, b.begin)

\* Regions overlap when they share a base; an empty region overlaps the regions it
\* touches.
regions_overlap(a, b) ==
    \/ overlap_size(a, b) > 0
    \/ (overlap_size(a, b) = 0 /\ (is_empty_region(a) \/ is_empty_region(b)))

head_region(r) == Region(r.begin, r.begin)
tail_region(r) == Region(r.end, r.end)
shift(r, n) == Region(r.begin + n, r.end + n)
expand_rhs(r, n) == Region(r.begin, r.end + n)
left_overhang_region(a, b) ==
    IF begins_before(b, a) THEN head_region(a) ELSE Region(a.begin, b.begin)
right_overhang_region(a, b) ==
    IF ends_before(a, b) THEN tail_region(a) ELSE Region(b.end, a.end)
encompassing_regions(a, b) == Region(Min(a.begin, b.begin), Max(a.end, b.end))

SetMin(S) == CHOOSE x \in S : \A y \in S : x <= y
SetMax(S) == CHOOSE x \in S : \A y \in S : y <= x

\* The region from the leftmost begin to the rightmost end of a non-empty set of
\* alleles.
encompassing_region_of(alleles) ==
    Region(SetMin({a.region.begin : a \in alleles}), SetMax({a.region.end : a \in alleles}))

\* An allele is a region and the sequence put there. A candidate variant is named by
\* a number: site > 0 is the substitution of the base at the site, -site is the
\* insertion of a base before the site. decompose gives the two alleles of a variant.
Allele(region, sequence) == [region |-> region, sequence |-> sequence]
Sites == 1..NumSites
Insertions == {-site : site \in Sites}
variant_region(v) == IF v > 0 THEN Region(v, v + 1) ELSE Region(-v, -v)
ref_allele(site) == Allele(variant_region(site), IF site > 0 THEN "A" ELSE "")
alt_allele(site) == Allele(variant_region(site), "C")
decompose(variants) == UNION {{ref_allele(site), alt_allele(site)} : site \in variants}

\* operator< of alleles: by region, then by sequence.
allele_less(a, b) ==
    \/ region_less(a.region, b.region)
    \/ (a.region = b.region /\ a.sequence # "C" /\ b.sequence = "C")

\* The alleles of a set in ascending order, as a MappableFlatSet holds them.
RECURSIVE sorted_alleles(_)
sorted_alleles(alleles) ==
    IF alleles = {} THEN <<>>
    ELSE LET first == CHOOSE a \in alleles : \A b \in alleles : a = b \/ allele_less(a, b)
         IN <<first>> \o sorted_alleles(alleles \ {first})

overlapped(alleles, region) == {a \in alleles : regions_overlap(a.region, region)}
contained(alleles, region) == {a \in alleles : contains(region, a.region)}
overlap_range(alleles, region) == sorted_alleles(overlapped(alleles, region))
count_overlapped(alleles, region) == Cardinality(overlapped(alleles, region))
has_overlapped(alleles, region) == overlapped(alleles, region) # {}
erase_overlapped(alleles, region) == alleles \ overlapped(alleles, region)
\* rightmost_mappable: the region that ends last; of the regions that end there,
\* the one that begins last (an insertion at the end of a base is right of the base).
rightmost_region(alleles) ==
    CHOOSE r \in {a.region : a \in alleles} :
        \A a \in alleles : a.region.end < r.end
                           \/ (a.region.end = r.end /\ a.region.begin <= r.begin)

\* The haplotype tree is the set of alleles it was extended with. The alleles of one
\* region exclude each other, so every region of the tree multiplies the branches by
\* the number of its alleles; the empty tree holds no haplotype.
RECURSIVE product_of_counts(_, _)
product_of_counts(tree, regions) ==
    IF regions = {} THEN 1
    ELSE LET r == CHOOSE x \in regions : TRUE
         IN Cardinality({a \in tree : a.region = r})
            * product_of_counts(tree, regions \ {r})

num_haplotypes(tree) ==
    IF tree = {} THEN 0 ELSE product_of_counts(tree, {a.region : a \in tree})

tree_clear(tree, region) == tree \ overlapped(tree, region)
tree_extend(tree, allele) == tree \cup {allele}
extend_tree(alleles, tree) == tree \cup alleles
splice(alleles, tree) == tree \cup alleles
tree_encompassing_region(tree) == encompassing_region_of(tree)

\* extend_tree_until(first, last, tree, max_haplotypes): extends the tree with the
\* alleles of a sorted range from index it on, and stops before the first allele
\* that would take the tree over max_haplotypes; it is the index of that allele,
\* Len(alleles) + 1 when every allele was added.
RECURSIVE extend_tree_until(_, _, _, _)
extend_tree_until(alleles, it, tree, max_haplotypes) ==
    IF it > Len(alleles) THEN [tree |-> tree, it |-> it]
    ELSE IF num_haplotypes(tree_extend(tree, alleles[it])) > max_haplotypes
         THEN [tree |-> tree, it |-> it]
         ELSE extend_tree_until(alleles, it + 1, tree_extend(tree, alleles[it]),
                                max_haplotypes)

\* A genome walker picks the next region from the current one and the alleles: a
\* region that starts at the first allele after the current region, or for a lagging
\* walker at an allele inside it, and ends with an allele after the current region;
\* with no allele after the current region it is the region two past the end.
walk(region, alleles, lagging) ==
    LET novel == {a \in alleles : is_after(a.region, region)}
        begins == {SetMin({a.region.begin : a \in novel})}
                  \cup (IF lagging
                        THEN {a.region.begin : a \in overlapped(alleles, region)}
                             \cup {region.end}
                        ELSE {})
    IN IF novel = {}
       THEN {shift(tail_region(encompassing_region_of(
                       alleles \cup {Allele(region, "A")})), 2)}
       ELSE {Region(b, a.region.end) : b \in begins, a \in novel}

(***************************************************************************)
(* The haplotype generator: the builder and the members of the generator.  *)
(***************************************************************************)
LaggingPolicies == {"none", "conservative", "aggressive"}
Limits == 1..MaxLimit

\* HaplotypeGenerator::Policies
Policies(lagging, target, holdout, overflow, max_holdout_depth) ==
    [lagging |-> lagging, target |-> target, holdout |-> holdout,
     overflow |-> overflow, max_holdout_depth |-> max_holdout_depth]

\* The policies of a new Builder: limits with target <= holdout <= overflow.
DefaultPolicies ==
    {Policies("none", t, h, o, d) :
        t \in Limits, h \in Limits, o \in Limits, d \in 0..MaxDepth} \cap
    {p \in [lagging : {"none"}, target : Limits, holdout : Limits, overflow : Limits,
            max_holdout_depth : 0..MaxDepth] :
        p.target <= p.holdout /\ p.holdout <= p.overflow}

Builder(policies) == [NoGenerator EXCEPT !.stage = "builder", !.policies_ = policies]

set_lagging_policy(b, policy) == [b EXCEPT !.policies_.lagging = policy]

\* The test of set_target_limit compares the holdout limit with itself.
set_target_limit(b, n) ==
    IF b.policies_.holdout >= b.policies_.holdout
    THEN [b EXCEPT !.policies_.target = n,
                   !.policies_.holdout = n + 1,
                   !.policies_.overflow = n + 1]
    ELSE [b EXCEPT !.policies_.target = n]

set_holdout_limit(b, n) == [b EXCEPT !.policies_.holdout = n]
set_overflow_limit(b, n) == [b EXCEPT !.policies_.overflow = n]
set_max_holdout_depth(b, n) == [b EXCEPT !.policies_.max_holdout_depth = n]

\* HaplotypeGenerator::HaplotypeGenerator, for a non-empty set of candidates
HaplotypeGenerator(candidates, policies) ==
    [stage |-> "built",
     policies_ |-> policies,
     tree_ |-> {},
     alleles_ |-> decompose(candidates),
     active_region_ |-> shift(head_region(sorted_alleles(decompose(candidates))[1].region), -1),
     next_active_region_ |-> {},
     rightmost_allele_ |-> rightmost_region(decompose(candidates)),
     active_holdouts_ |-> <<>>,
     holdout_region_ |-> {}]

build(b, candidates) == HaplotypeGenerator(candidates, b.policies_)

is_lagging_enabled(g) == g.policies_.lagging # "none"
in_holdout_mode(g) == g.active_holdouts_ # <<>>
can_extract_holdouts(g) == Len(g.active_holdouts_) < g.policies_.max_holdout_depth
reset_next_active_region(g) == [g EXCEPT !.next_active_region_ = {}]

\* update_lagged_next_active_region leaves the generator alone but for
\* next_active_region_: the region past the rightmost allele when the active region
\* contains it, else a region the lagged (or holdout) walker gives, which the test
\* tree may replace by the walk that does not lag.
update_lagged_next_active_region(g) ==
    IF contains(g.active_region_, g.rightmost_allele_)
    THEN {shift(tail_region(g.rightmost_allele_), 2)}
    ELSE walk(g.active_region_, g.alleles_, TRUE)

\* update_next_active_region, were the walkers asked for the region after the head of
\* the active region
update_next_active_region_from_head(g) ==
    IF g.next_active_region_ # {} THEN {g}
    ELSE {[g EXCEPT !.next_active_region_ = {r}] :
             r \in walk(head_region(g.active_region_), g.alleles_, FALSE)}

update_next_active_region(g) ==
    IF g.next_active_region_ # {} THEN {g}
    ELSE IF is_lagging_enabled(g) \/ in_holdout_mode(g)
         THEN {[g EXCEPT !.next_active_region_ = {r}] :
                  r \in update_lagged_next_active_region(g)}
         ELSE {[g EXCEPT !.next_active_region_ = {r}] :
                  r \in walk(g.active_region_, g.alleles_, FALSE)}

can_remove_entire_passed_region(next_active_region, passed_alleles) ==
    \/ passed_alleles = {}
    \/ ~regions_overlap(rightmost_region(passed_alleles), next_active_region)

\* requires_staged_removal: the last passed allele is an insertion and an allele of
\* another region before it is a position (a single base).
requires_staged_removal(passed_alleles) ==
    LET sorted == sorted_alleles(passed_alleles)
        last == sorted[Len(sorted)]
        others == {i \in 1..Len(sorted) : sorted[i].region # last.region}
    IN /\ passed_alleles # {}
       /\ is_empty_region(last.region)
       /\ others # {}
       /\ LET it == sorted[SetMax(others)]
          IN it.region.end - it.region.begin = 1

erase_and_clear(g, region) ==
    [g EXCEPT !.alleles_ = erase_overlapped(@, region),
              !.tree_ = tree_clear(@, region)]

\* progress, were the whole passed region erased in every case
progress_erasing_passed_region(g, to) ==
    IF to = g.active_region_ THEN g
    ELSE LET g1 == [g EXCEPT !.next_active_region_ = {to}]
             passed_region == left_overhang_region(g.active_region_, to)
             passed_alleles == overlapped(g.alleles_, passed_region)
         IN IF in_holdout_mode(g) THEN g1
            ELSE IF begins_before(g.active_region_, to)
                 THEN IF passed_alleles = {} THEN g1
                      ELSE erase_and_clear(g1, passed_region)
                 ELSE IF is_after(to, g.active_region_)
                      THEN [g1 EXCEPT !.tree_ = {}]
                      ELSE g1

progress(g, to) ==
    IF to = g.active_region_ THEN g
    ELSE LET g1 == [g EXCEPT !.next_active_region_ = {to}]
             passed_region == left_overhang_region(g.active_region_, to)
             passed_alleles == overlapped(g.alleles_, passed_region)
             first_removal_region == expand_rhs(passed_region, -1)
         IN IF in_holdout_mode(g) THEN g1
            ELSE IF begins_before(g.active_region_, to)
                 THEN IF passed_alleles = {} THEN g1
                      ELSE IF can_remove_entire_passed_region(to, passed_alleles)
                           THEN erase_and_clear(g1, passed_region)
                           ELSE IF requires_staged_removal(passed_alleles)
                                THEN erase_and_clear(
                                         erase_and_clear(g1, first_removal_region),
                                         tail_region(first_removal_region))
                                ELSE erase_and_clear(g1, first_removal_region)
                 ELSE IF is_after(to, g.active_region_)
                      THEN [g1 EXCEPT !.tree_ = {}]
                      ELSE g1

RECURSIVE Exp2(_)
Exp2(n) == IF n = 0 THEN 1 ELSE 2 * Exp2(n - 1)

estimate_num_haplotype(alleles, next_active_region) ==
    Exp2(count_overlapped(alleles, next_active_region))

require_more_holdouts(alleles, next_active_region, haplotype_limit) ==
    alleles # {} /\ estimate_num_haplotype(alleles, next_active_region) > haplotype_limit

\* The do-while loop of extract_holdouts. interaction_counts is sorted once, and
\* each pass takes its last region: the alleles of that region become a frame of the
\* stack, the walker is asked again, and the pass is repeated while the estimate of
\* the alleles left is over the holdout limit.
RECURSIVE extract_holdouts_loop(_, _, _, _, _, _)
extract_holdouts_loop(holdouts, interaction_counts, active_alleles, next_active_region, new_holdouts, limit) ==
    LET chosen_holdout_region == interaction_counts[Len(interaction_counts)]
        held == {a \in active_alleles : a.region = chosen_holdout_region}
        left == active_alleles \ held
        pushed == Append(holdouts, [alleles |-> held, region |-> chosen_holdout_region])
    IN UNION {IF require_more_holdouts(left, next, limit)
              THEN extract_holdouts_loop(pushed, SubSeq(interaction_counts, 1,
                                                        Len(interaction_counts) - 1),
                                         left, next, new_holdouts \cup held, limit)
              ELSE {[active_holdouts_ |-> pushed, new_holdouts |-> new_holdouts \cup held]}
              : next \in walk(head_region(next_active_region), left, FALSE)}

\* The regions of the active alleles in an order std::sort may leave them in:
\* ascending by the number of active alleles they overlap.
sorted_interaction_counts(active_alleles) ==
    {order \in Orders({a.region : a \in active_alleles}) :
        \A i, j \in DOMAIN order :
            i < j => count_overlapped(active_alleles, order[i])
                     <= count_overlapped(active_alleles, order[j])}

\* extract_holdouts, were the new holdouts left in alleles_
extract_holdouts_keeping_alleles(g, next_active_region) ==
    LET active_alleles == contained(g.alleles_, next_active_region)
    IN {[g EXCEPT !.active_holdouts_ = r.active_holdouts_,
                  !.holdout_region_ =
                      IF g.holdout_region_ # {}
                      THEN {encompassing_regions(TheOne(g.holdout_region_),
                                                 encompassing_region_of(r.new_holdouts))}
                      ELSE {encompassing_region_of(r.new_holdouts)}]
        : r \in UNION {extract_holdouts_loop(g.active_holdouts_, order, active_alleles,
                                             next_active_region, {},
                                             g.policies_.holdout)
                       : order \in sorted_interaction_counts(active_alleles)}}

extract_holdouts(g, next_active_region) ==
    LET active_alleles == contained(g.alleles_, next_active_region)
    IN {[g EXCEPT !.active_holdouts_ = r.active_holdouts_,
                  !.holdout_region_ =
                      IF g.holdout_region_ # {}
                      THEN {encompassing_regions(TheOne(g.holdout_region_),
                                                 encompassing_region_of(r.new_holdouts))}
                      ELSE {encompassing_region_of(r.new_holdouts)},
                  !.alleles_ = @ \ r.new_holdouts]
        : r \in UNION {extract_holdouts_loop(g.active_holdouts_, order, active_alleles,
                                             next_active_region, {},
                                             g.policies_.holdout)
                       : order \in sorted_interaction_counts(active_alleles)}}

can_reintroduce_holdouts(g) ==
    \/ ~in_holdout_mode(g)
    \/ ~ends_before(g.active_region_, TheOne(g.holdout_region_))
    \/ ~has_overlapped(g.alleles_,
                       right_overhang_region(TheOne(g.holdout_region_), g.active_region_))

\* reintroduce_holdouts, were the frame at the bottom of the stack taken
reintroduce_holdouts_first_in(g) ==
    LET top == g.active_holdouts_[1]
        spliced == splice(top.alleles, g.tree_)
        extended_region == right_overhang_region(g.active_region_,
                                                 TheOne(g.holdout_region_))
        tree == IF ends_before(TheOne(g.holdout_region_), g.active_region_)
                THEN extend_tree(contained(g.alleles_, extended_region), spliced)
                ELSE spliced
        popped == Tail(g.active_holdouts_)
    IN [g EXCEPT !.tree_ = tree,
                 !.alleles_ = @ \cup top.alleles,
                 !.active_holdouts_ = popped,
                 !.holdout_region_ = IF popped = <<>> THEN {} ELSE @]

reintroduce_holdouts(g) ==
    LET top == g.active_holdouts_[Len(g.active_holdouts_)]
        spliced == splice(top.alleles, g.tree_)
        extended_region == right_overhang_region(g.active_region_,
                                                 TheOne(g.holdout_region_))
        tree == IF ends_before(TheOne(g.holdout_region_), g.active_region_)
                THEN extend_tree(contained(g.alleles_, extended_region), spliced)
                ELSE spliced
        popped == SubSeq(g.active_holdouts_, 1, Len(g.active_holdouts_) - 1)
    IN [g EXCEPT !.tree_ = tree,
                 !.alleles_ = @ \cup top.alleles,
                 !.active_holdouts_ = popped,
                 !.holdout_region_ = IF popped = <<>> THEN {} ELSE @]

(***************************************************************************)
(* HaplotypeGenerator::generate and the calls on a builder and a generator.*)
(***************************************************************************)
\* How a generate call ends: the generator it leaves, the path it took, and for a
\* packet of haplotypes the number of haplotypes of the tree they were extracted
\* from.
Ended(g, outcome, path, size, region) ==
    [g |-> g, outcome |-> outcome, path |-> path, size |-> size, region |-> {region}]

\* The end of generate: the haplotypes are extracted from the tree, and the tree is
\* cleared unless the generator lags.
extract_haplotypes(g, path) ==
    Ended(IF is_lagging_enabled(g) THEN g ELSE [g EXCEPT !.tree_ = {}],
          "packet", path, num_haplotypes(g.tree_), g.active_region_)

HaplotypeOverflow(g, path) ==
    Ended(g, "HaplotypeOverflow", path, num_haplotypes(g.tree_), g.active_region_)

\* generate after update_next_active_region has set next_active_region_ in the
\* branch that does not reintroduce holdouts.
generate_next(g0) ==
    LET next == TheOne(g0.next_active_region_)
        g == progress(g0, next)
        novel_active_region ==
            IF g.tree_ # {} THEN right_overhang_region(next, g.active_region_) ELSE next
        novel_active_alleles == overlap_range(g.alleles_, novel_active_region)
        last_added == extend_tree_until(novel_active_alleles, 1, g.tree_,
                                        g.policies_.holdout)
        stopped == reset_next_active_region([g EXCEPT !.tree_ = last_added.tree])
        over == extend_tree_until(novel_active_alleles, last_added.it, last_added.tree,
                                  g.policies_.overflow)
    IN IF is_after(next, g0.rightmost_allele_)
       THEN {Ended(g0, "terminal", "normal", 0, next)}
       ELSE IF last_added.it <= Len(novel_active_alleles)
            THEN IF can_extract_holdouts(stopped)
                 THEN UNION {UNION {
                        LET moved == [walked EXCEPT
                                         !.active_region_ = TheOne(walked.next_active_region_),
                                         !.next_active_region_ = {}]
                            new_novel_alleles == overlap_range(moved.alleles_,
                                                               moved.active_region_)
                            it == extend_tree_until(new_novel_alleles, 1, moved.tree_,
                                                    moved.policies_.overflow)
                        IN IF it.it <= Len(new_novel_alleles)
                           THEN {HaplotypeOverflow([moved EXCEPT !.tree_ = it.tree],
                                                   "holdout_extraction")}
                           ELSE {extract_haplotypes([moved EXCEPT !.tree_ = it.tree],
                                                    "holdout_extraction")}
                        : walked \in update_next_active_region(
                              [held EXCEPT !.tree_ = tree_clear(@, novel_active_region)])}
                      : held \in extract_holdouts(stopped, novel_active_region)}
                 ELSE LET g1 == [stopped EXCEPT
                                    !.tree_ = over.tree,
                                    !.active_region_ = tree_encompassing_region(over.tree)]
                      IN IF over.it <= Len(novel_active_alleles)
                         THEN {HaplotypeOverflow(g1, "holdout_depth_reached")}
                         ELSE {extract_haplotypes(g1, "holdout_depth_reached")}
            ELSE {extract_haplotypes(
                      [g EXCEPT !.tree_ = last_added.tree, !.active_region_ = next,
                                !.next_active_region_ = {}], "normal")}

generate(g) ==
    IF g.alleles_ = {}
    THEN {Ended(g, "no_alleles", "normal", 0, g.active_region_)}
    ELSE IF in_holdout_mode(g) /\ can_reintroduce_holdouts(g)
         THEN LET g1 == reintroduce_holdouts(g)
              IN IF num_haplotypes(g1.tree_) > g1.policies_.overflow
                 THEN {HaplotypeOverflow(g1, "reintroduction")}
                 ELSE {extract_haplotypes(
                           [g1 EXCEPT !.active_region_ = tree_encompassing_region(g1.tree_),
                                      !.next_active_region_ = {}], "reintroduction")}
         ELSE UNION {generate_next(g1) : g1 \in update_next_active_region(g)}

\* The read manager and the assembler while a generator runs.
OthersIdle ==
    /\ RMIdle
    /\ AssemblerIdle

GenInit ==
    /\ OthersIdle
    /\ generator \in {Builder(p) : p \in DefaultPolicies}
    /\ gen_call = NoGenCall

\* A setter of the builder is called before build; the setter calls are bounded.
CanSet == generator.stage = "builder" /\ gen_call.setters < MaxSetterCalls
SetterCalled == [gen_call EXCEPT !.setters = @ + 1, !.op = "set"]
nongen == <<rmvars, assembler, asm_call, extraction, swap_call>>

SetLaggingPolicy(policy) ==
    /\ CanSet
    /\ generator' = set_lagging_policy(generator, policy)
    /\ gen_call' = SetterCalled
    /\ UNCHANGED nongen

SetTargetLimit(n) ==
    /\ CanSet
    /\ generator' = set_target_limit(generator, n)
    /\ gen_call' = SetterCalled
    /\ UNCHANGED nongen

SetHoldoutLimit(n) ==
    /\ CanSet
    /\ generator' = set_holdout_limit(generator, n)
    /\ gen_call' = SetterCalled
    /\ UNCHANGED nongen

SetOverflowLimit(n) ==
    /\ CanSet
    /\ generator' = set_overflow_limit(generator, n)
    /\ gen_call' = SetterCalled
    /\ UNCHANGED nongen

SetMaxHoldoutDepth(n) ==
    /\ CanSet
    /\ generator' = set_max_holdout_depth(generator, n)
    /\ gen_call' = SetterCalled
    /\ UNCHANGED nongen

Build(candidates) ==
    /\ generator.stage = "builder"
    /\ generator' = build(generator, candidates)
    /\ gen_call' = [gen_call EXCEPT !.op = "build"]
    /\ UNCHANGED nongen

\* A generator that threw HaplotypeOverflow is not called again.
Generate(max_calls) ==
    /\ generator.stage = "built"
    /\ gen_call.calls < max_calls
    /\ gen_call.outcome # "HaplotypeOverflow"
    /\ \E r \in generate(generator) :
          /\ generator' = r.g
          /\ gen_call' = [gen_call EXCEPT !.calls = @ + 1, !.op = "generate",
                                          !.outcome = r.outcome, !.path = r.path,
                                          !.size = r.size, !.region = r.region]
    /\ UNCHANGED nongen

GenNext ==
    \/ \E policy \in LaggingPolicies : SetLaggingPolicy(policy)
    \/ \E n \in Limits : SetTargetLimit(n)
    \/ \E n \in Limits : SetHoldoutLimit(n)
    \/ \E n \in Limits : SetOverflowLimit(n)
    \/ \E n \in 0..MaxDepth : SetMaxHoldoutDepth(n)
    \/ \E candidates \in (SUBSET Sites) \ {{}} : Build(candidates)
    \/ Generate(MaxGenerateCalls)

GenSpec == GenInit /\ [][GenNext]_vars

(***************************************************************************)
(* A built generator called until the end of its alleles.                  *)
(***************************************************************************)
MaxPacketCalls == 6

\* peek_next_active_region: boost::none in holdout mode, the empty set here
peek_next_active_region(g) ==
    IF in_holdout_mode(g) THEN {[g |-> g, region |-> {}]}
    ELSE {[g |-> g1, region |-> g1.next_active_region_] : g1 \in update_next_active_region(g)}

PeekNextActiveRegion ==
    /\ generator.stage = "built"
    /\ gen_call.outcome # "HaplotypeOverflow"
    /\ \E r \in peek_next_active_region(generator) :
          /\ generator' = r.g
          /\ gen_call' = [gen_call EXCEPT !.op = "peek", !.peeked = r.region]
    /\ UNCHANGED nongen

\* The policies a builder gives after set_target_limit(1), set_holdout_limit,
\* set_overflow_limit, set_lagging_policy and set_max_holdout_depth.
BuiltPolicies ==
    {Policies(lagging, 1, holdout, overflow, max_holdout_depth) :
        lagging \in LaggingPolicies, holdout \in Limits, overflow \in Limits,
        max_holdout_depth \in 0..MaxDepth}

PacketInit ==
    /\ OthersIdle
    /\ generator \in {HaplotypeGenerator(candidates, policies) :
                         candidates \in (SUBSET Sites) \ {{}}, policies \in BuiltPolicies}
    /\ gen_call = NoGenCall

PacketNext ==
    \/ Generate(MaxPacketCalls)
    \/ PeekNextActiveRegion

PacketSpec == PacketInit /\ [][PacketNext]_vars

\* The guard of Generate. generate always returns or throws, and every call is
\* counted, so Generate can make a step exactly when its guard holds.
CanGenerate(max_calls) ==
    /\ generator.stage = "built"
    /\ gen_call.calls < max_calls
    /\ gen_call.outcome # "HaplotypeOverflow"

\* The caller calls generate again and again: weak fairness of Generate, that is
\* WF_vars(Generate(MaxPacketCalls)) with ENABLED written as the guard.
PacketFairSpec ==
    /\ PacketSpec
    /\ \/ []<>(~CanGenerate(MaxPacketCalls))
       \/ []<><<Generate(MaxPacketCalls)>>_vars

(***************************************************************************)
(* A built generator over substitutions and insertions.                    *)
(***************************************************************************)
\* The candidate sets that hold an insertion.
IndelCandidates == {c \in SUBSET (Sites \cup Insertions) : c \cap Insertions # {}}

\* The policies of a generator that never holds alleles out.
IndelPolicies == {p \in BuiltPolicies : p.max_holdout_depth = 0}

IndelInit ==
    /\ OthersIdle
    /\ generator \in {HaplotypeGenerator(candidates, policies) :
                         candidates \in IndelCandidates, policies \in IndelPolicies}
    /\ gen_call = NoGenCall

IndelSpec == IndelInit /\ [][PacketNext]_vars

(***************************************************************************)
(* Properties of the haplotype generator.                                  *)
(***************************************************************************)
\* the last generate call returned a packet of haplotypes extracted from the tree
PacketReturned == gen_call.op = "generate" /\ gen_call.outcome = "packet"

\* the limits of the generator are ordered as the policies are meant to be
LimitsOrdered ==
    /\ generator.policies_.target <= generator.policies_.holdout
    /\ generator.policies_.holdout <= generator.policies_.overflow

\* C4: every generate call either fails with HaplotypeOverflow or returns a packet
\* extracted from a tree of at most overflow haplotypes, on the normal path, on the
\* path that extracts holdouts and on the path that reintroduces them.
C4_PacketWithinOverflow ==
    PacketReturned => gen_call.size <= generator.policies_.overflow

\* With a holdout limit that is no more than the overflow limit, every packet comes
\* from a tree of at most overflow haplotypes.
PacketWithinOverflowWhenOrdered ==
    (PacketReturned /\ generator.policies_.holdout <= generator.policies_.overflow)
        => gen_call.size <= generator.policies_.overflow

(***************************************************************************)
(* Properties of prune followed by extract_variants.                       *)
(***************************************************************************)
\* extract_variants has returned, after the calls that gave the assembler a
\* reference and copies, at least min_weight of them, of a read that differs from
\* it in one base, and after prune(min_weight).
SnvExtracted ==
    /\ VariantsReturned
    /\ asm_call.n = 4
    /\ asm_call.reference_inserted
    /\ asm_call.input.inserted > 0
    /\ asm_call.prune.min_weight > 0
    /\ asm_call.input.inserted >= asm_call.prune.min_weight

\* The index in the sequences, from 1, of the base that differs.
SnvIndex ==
    CHOOSE i \in DOMAIN asm_call.input.reference : asm_call.input.reference[i] # asm_call.input.read[i]

\* C19 as stated: the one variant returned has begin_pos = p and the reference
\* base and the alternative base at p as ref and alt.
C19_OneBaseVariant ==
    SnvExtracted =>
        extraction.returned = <<Variant(SnvIndex - 1,
                                        <<asm_call.input.reference[SnvIndex]>>,
                                        <<asm_call.input.read[SnvIndex]>>)>>

\* No k-mer is in the sequence twice.
NoKmerTwice(sequence, k) ==
    \A i, j \in 1..count_kmers(sequence, k) :
        i # j => Kmer(sequence, i, k) # Kmer(sequence, j, k)

\* The base that differs has k bases or more on either side of it, and the k
\* k-mers of the read that hold it are new to the reference.
SnvMakesBubble ==
    /\ assembler.k_ + 1 <= SnvIndex
    /\ SnvIndex <= Len(asm_call.input.reference) - assembler.k_
    /\ \A j \in (SnvIndex - assembler.k_ + 1)..SnvIndex :
          Kmer(asm_call.input.read, j, assembler.k_)
              \notin KmersIn(asm_call.input.reference, assembler.k_)

\* C19, amended: for a reference and a read that have no k-mer twice, and a
\* substitution at position p with k <= p <= |reference| - k - 1 whose k-mers are
\* new to the reference, min_weight or more copies of the read, prune(min_weight)
\* and extract_variants(max) with max >= 1 give exactly one variant, with
\* begin_pos = p - k and the 2k bases from p - k on of the reference and of the
\* read as ref and alt.
C19_PaddedVariant ==
    (/\ SnvExtracted
     /\ NoKmerTwice(asm_call.input.reference, assembler.k_)
     /\ NoKmerTwice(asm_call.input.read, assembler.k_)
     /\ SnvMakesBubble)
    => extraction.returned =
          <<Variant(SnvIndex - 1 - assembler.k_,
                    SubSeq(asm_call.input.reference, SnvIndex - assembler.k_,
                           SnvIndex + assembler.k_ - 1),
                    SubSeq(asm_call.input.read, SnvIndex - assembler.k_,
                           SnvIndex + assembler.k_ - 1))>>

\* C19 witness: k = 5, a reference of 14 bases without a k-mer twice, two copies
\* of a read with a substitution at position 7, prune(2), and the variant
\* returned.
C19_Witness ==
    /\ SnvExtracted
    /\ assembler.k_ = 5
    /\ NoKmerTwice(asm_call.input.reference, assembler.k_)
    /\ NoKmerTwice(asm_call.input.read, assembler.k_)
    /\ SnvMakesBubble
    /\ SnvIndex = 8
    /\ asm_call.prune.min_weight = 2
    /\ Len(extraction.returned) = 1

(***************************************************************************)
(* Properties of insert_read.                                              *)
(***************************************************************************)
\* The step is the call insert_read(asm_call.input.read).
ReadInserted == asm_call'.input.inserted = 1 /\ asm_call.input.inserted = 0

\* The places in a sequence of two consecutive canonical k-mers u, v.
Occurrences_of_pair(sequence, k, u, v) ==
    {i \in 1..(count_kmers(sequence, k) - 1) :
        /\ Kmer(sequence, i, k) = u /\ Kmer(sequence, i + 1, k) = v
        /\ is_canonical_dna(u) /\ is_canonical_dna(v)}

\* The edges from u to v, and the sum of their weights.
EdgesOfPair(a, u, v) == {e \in DOMAIN a.edges : a.edges[e].source = u /\ a.edges[e].target = v}

RECURSIVE SumOfWeights(_, _)
SumOfWeights(a, es) ==
    IF es = {} THEN 0
    ELSE LET e == CHOOSE x \in es : TRUE IN a.edges[e].weight + SumOfWeights(a, es \ {e})

\* What insert_read(sequence) is to make of graph a, as graph b.
InsertReadEffect(a, b, sequence) ==
    LET k == a.k_
        canonical == {kmer \in KmersIn(sequence, k) : is_canonical_dna(kmer)}
    IN /\ Len(sequence) < k => b = a
       /\ b.k_ = k
       /\ b.reference_kmers_ = a.reference_kmers_
       /\ b.reference_head_position_ = a.reference_head_position_
       /\ Kmers(b) = Kmers(a) \cup canonical
       /\ Len(b.vertices) = Cardinality(Kmers(b))
       /\ \A i \in DOMAIN b.vertices :
             IF i \in DOMAIN a.vertices THEN b.vertices[i] = a.vertices[i]
             ELSE ~b.vertices[i].is_reference
       /\ \A e \in DOMAIN b.edges :
             /\ b.edges[e].source \in Kmers(b) /\ b.edges[e].target \in Kmers(b)
             /\ IF e \in DOMAIN a.edges
                THEN /\ b.edges[e].source = a.edges[e].source
                     /\ b.edges[e].target = a.edges[e].target
                     /\ b.edges[e].is_reference = a.edges[e].is_reference
                ELSE ~b.edges[e].is_reference
       /\ \A u, v \in Kmers(b) :
             /\ SumOfWeights(b, EdgesOfPair(b, u, v)) =
                   SumOfWeights(a, EdgesOfPair(a, u, v))
                       + Cardinality(Occurrences_of_pair(sequence, k, u, v))
             /\ Cardinality(EdgesOfPair(b, u, v)) =
                   IF EdgesOfPair(a, u, v) # {} THEN Cardinality(EdgesOfPair(a, u, v))
                   ELSE IF Occurrences_of_pair(sequence, k, u, v) # {} THEN 1 ELSE 0

\* C20: insert_read(seq) adds 1 to the weight of edge u->v, made with weight 1
\* when there is none, for every pair of consecutive canonical k-mers u, v of seq,
\* once for every place of the pair in seq; it makes no vertex for a k-mer that is
\* not canonical and no edge to or from one, leaves every is_reference flag as it
\* is, and changes nothing when seq is shorter than k.
C20_InsertReadCountsPairs ==
    [][ReadInserted => InsertReadEffect(assembler, assembler', asm_call.input.read)]_vars

\* C20 witness: a read with an N and with a pair of canonical k-mers was inserted
\* into a graph with a reference, where an edge of the reference got its weight
\* from the read.
C20_Witness ==
    /\ asm_call.op = "insert_read"
    /\ asm_call.input.inserted = 1
    /\ asm_call.reference_inserted
    /\ ~is_canonical_dna(asm_call.input.read)
    /\ asm_call.n = 2
    /\ \E e \in DOMAIN assembler.edges :
          assembler.edges[e].is_reference /\ assembler.edges[e].weight > 0

(***************************************************************************)
(* Properties of insert_reference.                                         *)
(***************************************************************************)
\* C21: insert_reference(seq) fails with BadReferenceSequence when seq is shorter
\* than k and when some k-mer of seq is not canonical.
C21_BadReferenceSequence ==
    (/\ asm_call.op = "insert_reference"
     /\ \/ Len(asm_call.input.reference) < assembler.k_
        \/ \E kmer \in KmersIn(asm_call.input.reference, assembler.k_) : ~is_canonical_dna(kmer))
    => asm_call.outcome = "BadReferenceSequence"

\* A sequence with a k-mer that is not canonical is refused with
\* BadReferenceSequence, unless the call is refused for the reference k-mers that
\* an earlier call left.
C21_NotCanonical ==
    (/\ asm_call.op = "insert_reference"
     /\ asm_call.n = 1 \/ asm_call.outcome # "runtime_error"
     /\ \E kmer \in KmersIn(asm_call.input.reference, assembler.k_) : ~is_canonical_dna(kmer))
    => asm_call.outcome = "BadReferenceSequence"

\* The step is a call of insert_reference.
ReferenceCalled == asm_call'.op = "insert_reference" /\ asm_call'.n = asm_call.n + 1

\* The call of the step threw and left the assembler as it was.
CallRefused == asm_call'.outcome # "returned" /\ assembler' = assembler

\* C22 as stated: once insert_reference has succeeded on an assembler, every later
\* insert_reference call made while the graph is not empty fails and leaves the
\* graph, the reference k-mers and reference_head_position_ as they were.
C22_OneReferenceEver ==
    [][(ReferenceCalled /\ asm_call.reference_inserted /\ ~is_empty(assembler))
          => CallRefused]_vars

\* C22, amended: the same for calls made while the assembler still holds the
\* reference k-mers, which clear() and a prune that returns false take away.
C22_OneReferenceHeld ==
    [][(/\ ReferenceCalled
        /\ asm_call.reference_inserted
        /\ ~is_empty(assembler)
        /\ ~is_reference_empty(assembler))
          => CallRefused]_vars

\* C22 witness: a second insert_reference call was refused on a graph that holds
\* reads and the reference of the first.
C22_Witness ==
    /\ asm_call.op = "insert_reference"
    /\ asm_call.outcome = "runtime_error"
    /\ asm_call.reference_inserted
    /\ asm_call.n = 4
    /\ ~is_empty(assembler)
    /\ ~is_all_reference(assembler)

(***************************************************************************)
(* Properties of the bubble loop of extract_variants.                      *)
(***************************************************************************)
\* extract_variants runs on a graph that prune has returned true for.
ExtractingFromPruned ==
    /\ extraction.pc \in {"outer", "inner", "flanks", "return"}
    /\ asm_call.prune.result = "true"

\* A pass of the outer loop starts: its condition holds.
PassStarts ==
    /\ ExtractingFromPruned
    /\ extraction.pc = "outer"
    /\ extraction.k > 0
    /\ extraction.num_remaining_alt_kmers # 0
    /\ extraction' # extraction

\* A pass that starts with a blocked edge returns when max_blockings is 0 and
\* takes 1 from it otherwise; nothing else changes max_blockings, which is 50 when
\* the loop starts.
BlockedPassCounted ==
    /\ (PassStarts /\ extraction.blocked_edge # 0) =>
           IF extraction.max_blockings = 0
           THEN extraction'.pc = "return" /\ assembler' = assembler
           ELSE extraction'.max_blockings = extraction.max_blockings - 1
    /\ (ExtractingFromPruned /\ ~(PassStarts /\ extraction.blocked_edge # 0)) =>
           extraction'.max_blockings = extraction.max_blockings
    /\ (extraction.pc = "idle" /\ extraction'.pc = "outer") =>
           extraction'.max_blockings = MaxBlockings

\* The edges that are blocked.
BlockedEdges(a) == {a.edges[e].id : e \in {i \in DOMAIN a.edges : is_blocked(a, i)}}

\* A pass that starts without a blocked edge returns, or blocks in-edges that
\* were not blocked, or goes on to the inner loop; and every pass of the inner
\* loop takes 1 from the budget k that is left, or ends the call, and adds no
\* alt k-mer.
OtherPassProgresses ==
    /\ (PassStarts /\ extraction.blocked_edge = 0) =>
           \/ extraction'.pc \in {"return", "done"}
           \/ /\ extraction'.pc = "outer"
              /\ BlockedEdges(assembler) \subseteq BlockedEdges(assembler')
              /\ BlockedEdges(assembler') # BlockedEdges(assembler)
           \/ extraction'.pc = "inner" /\ extraction'.k = extraction.k
    /\ (ExtractingFromPruned /\ extraction.pc = "inner" /\ extraction' # extraction) =>
           /\ \/ extraction'.k = extraction.k - 1
              \/ extraction.k = 0 /\ extraction'.k = 0
              \/ extraction'.pc = "done"
           /\ extraction'.num_remaining_alt_kmers <= extraction.num_remaining_alt_kmers

\* C23: extract_variants(max) terminates on every pruned graph and for every max:
\* the bubble loop makes at most 50 passes that start with a blocked edge, and
\* every other pass removes alt k-mers, takes from the budget of variants that is
\* left, blocks reference in-edges that were not all blocked, or returns.
C23_BubbleLoopTerminates ==
    /\ [][BlockedPassCounted /\ OtherPassProgresses]_vars
    /\ [](asm_call.prune.result = "true" => extraction.steps < MaxSteps)

\* C23 witness: extract_variants has returned variants from a pruned graph after
\* passes that started with a blocked edge.
C23_Witness ==
    /\ VariantsReturned
    /\ asm_call.prune.result = "true"
    /\ extraction.max_blockings < MaxBlockings
    /\ extraction.returned # <<>>

(***************************************************************************)
(* Properties of the packets of a generator.                               *)
(***************************************************************************)
\* A step is a call of generate.
GenerateCalled == gen_call'.calls = gen_call.calls + 1

\* The call returned a pair of haplotypes and a region: it did not throw.
PairReturned(call) == call.outcome \in {"packet", "terminal", "no_alleles"}

\* A generate call made outside holdout mode returns a region that is not left of
\* the active region, nor of the region the call before it returned.
RegionNeverMovesLeft ==
    (GenerateCalled /\ ~in_holdout_mode(generator) /\ PairReturned(gen_call')) =>
        /\ region_less_equal(generator.active_region_, TheOne(gen_call'.region))
        /\ PairReturned(gen_call) =>
               region_less_equal(TheOne(gen_call.region), TheOne(gen_call'.region))

\* peek_next_active_region returns no region left of the active region.
PeekedNeverLeft ==
    (gen_call'.op = "peek" /\ gen_call'.peeked # {}) =>
        region_less_equal(generator'.active_region_, TheOne(gen_call'.peeked))

\* C24: over generate calls made outside holdout mode the active region never moves
\* left, and peek_next_active_region never returns a region left of the active
\* region.
C24_ActiveRegionNeverMovesLeft == [][RegionNeverMovesLeft /\ PeekedNeverLeft]_vars

\* C24 witness: after two generate calls or more, the last one a packet returned
\* outside holdout mode, peek_next_active_region has returned a region right of
\* the region of that packet.
C24_Witness ==
    /\ gen_call.calls >= 2
    /\ gen_call.op = "peek"
    /\ gen_call.outcome = "packet"
    /\ ~in_holdout_mode(generator)
    /\ gen_call.region = {generator.active_region_}
    /\ gen_call.peeked # {}
    /\ region_less(generator.active_region_, TheOne(gen_call.peeked))

(***************************************************************************)
(* Properties of the holdout stack.                                        *)
(***************************************************************************)
\* The alleles of the frames of the holdout stack.
HeldOut(g) == UNION {g.active_holdouts_[i].alleles : i \in DOMAIN g.active_holdouts_}

\* C25: after every operation of the generator, no allele is both among the
\* remaining alleles and in a frame of the holdout stack.
C25_HeldOutNotRemaining == generator.alleles_ \cap HeldOut(generator) = {}

\* C25 witness: generate has put the alleles of the top frame back among the
\* remaining alleles while a frame is left on the stack.
C25_Witness ==
    /\ gen_call.path = "reintroduction"
    /\ gen_call.outcome = "packet"
    /\ Len(generator.active_holdouts_) = 1
    /\ generator.alleles_ # {}

(***************************************************************************)
(* Properties of the end of the stream of packets.                         *)
(***************************************************************************)
\* generate has returned an empty vector of haplotypes.
EmptyVectorReturned ==
    /\ gen_call.calls > 0
    /\ PairReturned(gen_call)
    /\ gen_call.outcome = "packet" => gen_call.size = 0

\* The next active region is set and is after the rightmost allele.
NextIsAfterRightmost(g) ==
    /\ g.next_active_region_ # {}
    /\ is_after(TheOne(g.next_active_region_), g.rightmost_allele_)

\* generate, called outside holdout mode with a next active region after the
\* rightmost allele, returns the empty vector.
EmptyWhenNextIsAfter ==
    (GenerateCalled /\ ~in_holdout_mode(generator) /\ NextIsAfterRightmost(generator)) =>
        gen_call'.outcome \in {"terminal", "no_alleles"}

\* C26: whenever generate returns an empty vector of haplotypes the region it
\* returns is strictly after the rightmost allele, also when no allele remains;
\* and generate returns the empty vector whenever the next active region is after
\* the rightmost allele.
C26_EmptyVectorIsEndOfStream ==
    /\ [](EmptyVectorReturned =>
              is_after(TheOne(gen_call.region), generator.rightmost_allele_))
    /\ [][EmptyWhenNextIsAfter]_vars

\* The last generate call returned the terminal packet: an empty vector of
\* haplotypes with a region after the rightmost allele.
TerminalPacketReturned ==
    /\ EmptyVectorReturned
    /\ is_after(TheOne(gen_call.region), generator.rightmost_allele_)

\* C27: generate calls that do not fail eventually return the terminal packet,
\* also when holdout frames were pushed on the way, and every pushed frame has been
\* reintroduced before the terminal packet.
C27_TerminalPacketEventually ==
    /\ <>(TerminalPacketReturned \/ gen_call.outcome = "HaplotypeOverflow")
    /\ [](TerminalPacketReturned => ~in_holdout_mode(generator))

(***************************************************************************)
(* Properties of a generator with max_holdout_depth = 0.                   *)
(***************************************************************************)
\* generate is called on a generator of max_holdout_depth 0 with an empty tree,
\* after peek_next_active_region has set the next active region, which is not
\* after the rightmost allele: the alleles the region overlaps are the novel
\* alleles of the step.
StepAtDepthZero ==
    /\ GenerateCalled
    /\ generator.policies_.max_holdout_depth = 0
    /\ generator.tree_ = {}
    /\ generator.next_active_region_ # {}
    /\ ~NextIsAfterRightmost(generator)

NovelAlleles(g) == overlapped(g.alleles_, TheOne(g.next_active_region_))

\* The novel alleles cannot all be added within the holdout limit.
OverHoldoutLimit(g) == num_haplotypes(NovelAlleles(g)) > g.policies_.holdout

\* With the novel alleles over the holdout limit the call goes on to the overflow
\* limit: it returns the haplotypes of all novel alleles when they fit within the
\* overflow limit and throws HaplotypeOverflow when they do not.
ExtendsUpToOverflow ==
    (StepAtDepthZero /\ OverHoldoutLimit(generator)) =>
        /\ gen_call'.path = "holdout_depth_reached"
        /\ IF num_haplotypes(NovelAlleles(generator)) <= generator.policies_.overflow
           THEN /\ gen_call'.outcome = "packet"
                /\ gen_call'.size = num_haplotypes(NovelAlleles(generator))
                /\ gen_call'.region = {encompassing_region_of(NovelAlleles(generator))}
           ELSE gen_call'.outcome = "HaplotypeOverflow"

\* The first call walks to a region with all alleles and throws HaplotypeOverflow.
OverflowOverAllAlleles ==
    /\ StepAtDepthZero
    /\ gen_call.calls = 0
    /\ NovelAlleles(generator) = generator.alleles_
    /\ gen_call'.outcome = "HaplotypeOverflow"

NeverPushesAtDepthZero ==
    generator.policies_.max_holdout_depth = 0 => generator.active_holdouts_ = <<>>

\* C28: with max_holdout_depth = 0 the generator never pushes a holdout frame; when
\* the novel alleles of a step cannot all be added within the holdout limit it goes
\* on to the overflow limit and fails with HaplotypeOverflow if they still do not
\* all fit, and then (S6) the region of the HaplotypeOverflow encompasses all the
\* alleles.
C28_OverflowAtDepthZero ==
    /\ []NeverPushesAtDepthZero
    /\ [][ExtendsUpToOverflow]_vars
    /\ [][OverflowOverAllAlleles =>
              contains(TheOne(gen_call'.region),
                       encompassing_region_of(generator.alleles_))]_vars

\* The tree is extended within the holdout limit first and the overflow limit
\* next: the alleles of a prefix of the sorted novel alleles that fit within the
\* larger of the two limits while the next allele does not.
FitWithinLimits(g) ==
    {fit \in SUBSET NovelAlleles(g) :
        /\ fit # {}
        /\ num_haplotypes(fit) <= Max(g.policies_.holdout, g.policies_.overflow)
        /\ \A a \in fit, b \in NovelAlleles(g) \ fit : allele_less(a, b)
        /\ \E b \in NovelAlleles(g) \ fit :
               /\ \A c \in NovelAlleles(g) \ fit : b = c \/ allele_less(b, c)
               /\ num_haplotypes(fit \cup {b})
                      > Max(g.policies_.holdout, g.policies_.overflow)}

\* What holds of a generator with max_holdout_depth = 0: the region of the
\* HaplotypeOverflow is the region of the tree, which holds the novel alleles that
\* fit within the limits.
OverflowWithRegionOfTree ==
    /\ []NeverPushesAtDepthZero
    /\ [][ExtendsUpToOverflow]_vars
    /\ [][OverflowOverAllAlleles =>
              /\ generator'.tree_ \in FitWithinLimits(generator)
              /\ gen_call'.region = {encompassing_region_of(generator'.tree_)}]_vars

(***************************************************************************)
(* Properties of the candidate paths of a query on the slow path.          *)
(***************************************************************************)
\* The paths that hold a requested sample and whose indexed regions overlap the
\* region of the query of thread t.
SamplePathsOverRegion(t) ==
    get_reader_paths_containing_samples(args[t].samples)
        \cap {p \in Paths : could_reader_contain_region(p, args[t].region)}

\* Thread t takes the mutex and computes the paths of its query.
SlowPathEntered(t) == pc[t] = "wait" /\ pc'[t] = "loop"

\* The readers thread t reads in a step of its loop.
ReadersRead(t) ==
    IF pc[t] = "loop" /\ reader_paths[t] # <<>> /\ pc'[t] # pc[t]
    THEN {reader_paths[t][i] : i \in reader_itr[t]..Len(reader_paths[t])}
    ELSE {}

\* The readers opened in a step.
ReadersOpened == Range(open_readers_') \ Range(open_readers_)

\* C29: on the slow path of has_reads, count_reads, fetch_reads and
\* find_covered_subregion, the readers the query opens or reads from are the paths
\* that hold a requested sample and whose indexed regions overlap the region.
C29_ReadersAreSamplePathsOverRegion ==
    [][\A t \in Threads :
          /\ SlowPathEntered(t) =>
                 Range(reader_paths'[t])
                     = get_possible_reader_paths(args'[t].samples, args'[t].region)
          /\ ReadersRead(t) \subseteq SamplePathsOverRegion(t)
          /\ InSlowPath(t) => ReadersOpened \subseteq SamplePathsOverRegion(t)]_vars

(***************************************************************************)
(* Properties of the order of a query on the slow path.                    *)
(***************************************************************************)
\* The candidate files of the query of thread t in ascending order of file size.
AscendingBySize(t) ==
    {order \in Orders(SamplePathsOverRegion(t)) :
        \A i, j \in DOMAIN order : i < j => ~FileSizeCompare(order[j], order[i])}

\* What the query of thread t returns when its candidate files are queried one
\* after another in ascending order of file size.
SequentialResults(t) ==
    {FinalValue(args[t], ProcessBatchValue(args[t], InitAcc(args[t]), order)) :
        order \in AscendingBySize(t)}

\* The query of thread t returns from the slow path.
SlowPathReturns(t) == pc[t] = "loop" /\ pc'[t] = "done"

\* The paths open_readers of thread t has still to open after this step.
StillToOpen(t) ==
    {reader_paths[t][i] : i \in (open_idx[t] + 1)..Len(reader_paths[t])}

\* C30: within one query on the slow path the result, and the sequence in which
\* readers are opened and closed, are those of querying the candidate files one
\* after another in ascending order of file size: the query returns what the
\* sequential query returns, and every reader it opens is no larger than the
\* candidate files it opens later.
C30_AsSequentialInAscendingSize ==
    [][\A t \in Threads :
          /\ SlowPathReturns(t) => acc'[t] \in SequentialResults(t)
          /\ (pc[t] = "opening" /\ pc'[t] = "opening") =>
                 \A p \in ReadersOpened, q \in StillToOpen(t) :
                     ~FileSizeCompare(q, p)]_vars

(***************************************************************************)
(* Properties of a manager whose budget covers every input file.           *)
(***************************************************************************)
\* Every input path has an open reader.
EveryPathOpen == Range(open_readers_) = Paths /\ closed_readers_ = {}

\* No step changes the open readers, the closed readers or the mutex.
ReadersAndMutexUnchanged == UNCHANGED <<open_readers_, closed_readers_, mutex_>>

\* C31: when the number of input files is at most max_open_files, every input
\* path is open after construction, and no query opens or closes a reader or
\* takes the mutex: open_readers_ and closed_readers_ never change.
C31_AllOpenNeverChanges ==
    /\ [](all_readers_are_open => EveryPathOpen /\ mutex_ = NoThread)
    /\ [][all_readers_are_open => ReadersAndMutexUnchanged]_vars

(***************************************************************************)
(* Properties of the depth of the holdout stack.                           *)
(***************************************************************************)
\* C32: the number of frames on the holdout stack never exceeds
\* max_holdout_depth, whatever generate calls were made, the calls included
\* whose holdout extraction holds out several allele regions.
C32_HoldoutDepthBounded ==
    Len(generator.active_holdouts_) <= generator.policies_.max_holdout_depth

(***************************************************************************)
(* Properties of the vertices left by prune.                               *)
(***************************************************************************)
\* The vertices on paths from the reference head, and those on paths to the
\* reference tail; none when the k-mer is not a vertex of the graph.
ReachableFromHead(a) ==
    IF is_reference_empty(a) \/ ~contains_kmer(a, reference_head(a)) THEN {}
    ELSE Reach(a, {reference_head(a)}, null_vertex)

ReachingTail(a) ==
    IF is_reference_empty(a) \/ ~contains_kmer(a, reference_tail(a)) THEN {}
    ELSE ReachBack(a, {reference_tail(a)})

TailHasNoOutEdge(a) ==
    ~is_reference_empty(a) /\ out_degree(a, reference_tail(a)) = 0

\* C33: after prune returns true and leaves a non-empty graph, every vertex left
\* is reachable from the reference head and can reach the reference tail, and
\* the reference tail has no outgoing edge; also for a graph with a cycle that
\* leaves the reference tail and returns directly to it.
C33_PrunedBetweenHeadAndTail ==
    (PruneReturnedTrue /\ ~is_empty(assembler))
        => /\ Kmers(assembler) \subseteq ReachableFromHead(assembler)
           /\ Kmers(assembler) \subseteq ReachingTail(assembler)
           /\ TailHasNoOutEdge(assembler)

(***************************************************************************)
(* Properties of the reintroduction of holdouts.                           *)
(***************************************************************************)
\* The frame on top of the holdout stack.
TopFrame(g) == g.active_holdouts_[Len(g.active_holdouts_)]

\* The generate call took frames off the holdout stack.
FramesPopped ==
    GenerateCalled /\ Len(generator'.active_holdouts_) < Len(generator.active_holdouts_)

\* The tree a generate call leaves is the tree it extracted from: the generator
\* lags or the call threw.
TreeKept ==
    is_lagging_enabled(generator) \/ gen_call'.outcome = "HaplotypeOverflow"

\* C34: holdout frames are reintroduced in LIFO order, at most one per generate
\* call; the call puts the alleles of that frame, and of no other frame, back
\* into alleles_ and into the tree, and once the last frame is popped the
\* generator is out of holdout mode and has no holdout region.
C34_ReintroducedLastInFirstOut ==
    [][FramesPopped =>
          /\ gen_call'.path = "reintroduction"
          /\ generator'.active_holdouts_ =
                 SubSeq(generator.active_holdouts_, 1, Len(generator.active_holdouts_) - 1)
          /\ generator'.alleles_ = generator.alleles_ \cup TopFrame(generator).alleles
          /\ TreeKept => /\ TopFrame(generator).alleles \subseteq generator'.tree_
                         /\ generator'.tree_ \cap HeldOut(generator') = {}
          /\ generator'.active_holdouts_ = <<>> =>
                 ~in_holdout_mode(generator') /\ generator'.holdout_region_ = {}]_vars

\* C34 witness: a generate call reintroduced the top frame of a stack of several
\* frames into a tree that was kept.
C34_Witness ==
    /\ gen_call.path = "reintroduction"
    /\ in_holdout_mode(generator)
    /\ TopFrame(generator).alleles \cap generator.tree_ = {}
    /\ generator.tree_ # {}

(***************************************************************************)
(* Properties of the alleles a generate call passes.                       *)
(***************************************************************************)
\* A generate call made outside holdout mode returned the packet of the next
\* active region: generator'.active_region_ is the region it advanced to.
Advanced ==
    /\ GenerateCalled
    /\ ~in_holdout_mode(generator)
    /\ gen_call'.outcome = "packet"
    /\ gen_call'.path = "normal"

\* The left overhang of the active region over the region the call advanced to.
PassedRegion == left_overhang_region(generator.active_region_, generator'.active_region_)

\* C35: when a generate call advances from R to R' outside holdout mode, the
\* alleles erased from alleles_ (and cleared from the tree) all overlap the left
\* overhang of R over R', and every allele that overlaps R', an insertion at the
\* left boundary of R' included, is still in alleles_ after the call, whichever
\* of the three removals was made.
C35_OnlyPassedAllelesErased ==
    [][Advanced =>
          /\ (generator.alleles_ \ generator'.alleles_)
                 \subseteq overlapped(generator.alleles_, PassedRegion)
          /\ overlapped(generator.alleles_, generator'.active_region_)
                 \subseteq generator'.alleles_
          /\ is_lagging_enabled(generator) =>
                 (generator.tree_ \ generator'.tree_)
                     \subseteq overlapped(generator.tree_, PassedRegion)]_vars

\* A single base or longer allele that ends where an empty region R lies: staged
\* removal erases it with the tail position of the passed region.
EndsAtEmpty(a, R) ==
    is_empty_region(R) /\ ~is_empty_region(a.region) /\ a.region.end = R.begin

\* C35 as it holds: the alleles a call erases all overlap the left overhang of R
\* over R', and every allele that overlaps R' is still in alleles_ after the call,
\* but for the alleles of one or more bases that end at the left boundary of an
\* empty R'.
C35_OnlyPassedErasedButAtEmptyRegion ==
    [][Advanced =>
          /\ (generator.alleles_ \ generator'.alleles_)
                 \subseteq overlapped(generator.alleles_, PassedRegion)
          /\ {a \in overlapped(generator.alleles_, generator'.active_region_) :
                 ~EndsAtEmpty(a, generator'.active_region_)}
                 \subseteq generator'.alleles_
          /\ is_lagging_enabled(generator) =>
                 (generator.tree_ \ generator'.tree_)
                     \subseteq overlapped(generator.tree_, PassedRegion)]_vars

\* C35 witness: a call advanced to a region with an insertion at its left boundary
\* and erased the alleles before it; the insertion is the first allele left.
C35_Witness ==
    /\ gen_call.outcome = "packet"
    /\ gen_call.path = "normal"
    /\ gen_call.calls > 1
    /\ ~in_holdout_mode(generator)
    /\ \E a \in generator.alleles_ :
          /\ is_empty_region(a.region)
          /\ a.region.begin = generator.active_region_.begin
    /\ \A a \in generator.alleles_ : a.region.begin >= generator.active_region_.begin


(***************************************************************************)
(* An assembler that is pruned, cleared and given its reference again.     *)
(***************************************************************************)
MaxFlankCalls == 4

FlankInit ==
    /\ RMIdle
    /\ assembler = Assembler(2)
    /\ asm_call \in {[NoCall EXCEPT !.input = input] : input \in SnvInputs(2)}
    /\ extraction = NoExtraction
    /\ GeneratorIdle

FlankNext ==
    \/ InsertReference(asm_call.input.reference, MaxFlankCalls)
    \/ InsertReadCopies(MaxFlankCalls)
    \/ \E min_weight \in 1..MaxMinWeight : Prune(min_weight, MaxFlankCalls)
    \/ Clear(MaxFlankCalls)
    \/ \E max \in {1, MaxVariants} : ExtractVariants(max)
    \/ FindBubbles
    \/ ExtractBubble
    \/ PruneFlanks
    \/ ReturnVariants

FlankSpec == FlankInit /\ [][FlankNext]_vars

(***************************************************************************)
(* Properties of the reference head position.                              *)
(***************************************************************************)
\* A step that is one call of prune_reference_flanks and nothing else.
FlanksPruned ==
    /\ extraction.pc = "flanks"
    /\ can_prune_reference_flanks(assembler)
    /\ extraction'.pc = "outer"

HeadRemoved == assembler'.reference_head_position_ - assembler.reference_head_position_

TailRemoved ==
    Len(assembler.reference_kmers_) - HeadRemoved - Len(assembler'.reference_kmers_)

RemovedKmers ==
    {assembler.reference_kmers_[i] :
        i \in (1..HeadRemoved) \cup
              ((Len(assembler.reference_kmers_) - TailRemoved + 1)..
                   Len(assembler.reference_kmers_))}

\* The position grows by the number of k-mers taken from the head, and the k-mers
\* taken from the head and from the tail are the vertices that leave the graph.
FlankStepRemovesExactly ==
    /\ HeadRemoved >= 0
    /\ TailRemoved >= 0
    /\ assembler'.reference_kmers_ =
           SubSeq(assembler.reference_kmers_, HeadRemoved + 1,
                  Len(assembler.reference_kmers_) - TailRemoved)
    /\ Kmers(assembler') = Kmers(assembler) \ RemovedKmers
    /\ Len(assembler'.vertices) = Len(assembler.vertices) - HeadRemoved - TailRemoved

\* The reference head is the k-mer at reference_head_position_, counted from 0,
\* of the reference that was inserted.
HeadAtOffset(a, reference) ==
    /\ a.reference_head_position_ + a.k_ <= Len(reference)
    /\ a.reference_kmers_[1] = Kmer(reference, a.reference_head_position_ + 1, a.k_)

\* C36: flank pruning adds to reference_head_position_ the number of reference
\* k-mers it removes from the head and nothing for those it removes from the tail,
\* and removes exactly those vertices; so reference_head_position_ is always the
\* offset of the reference head in the inserted reference.
C36_HeadPositionIsHeadOffset ==
    /\ [](~is_reference_empty(assembler) =>
              HeadAtOffset(assembler, asm_call.input.reference))
    /\ [][FlanksPruned => FlankStepRemovesExactly]_vars


(***************************************************************************)
(* A built generator whose caller also clears its progress and jumps.      *)
(***************************************************************************)
MaxJumpCalls == 2

clear_holdouts(g) == [g EXCEPT !.active_holdouts_ = <<>>, !.holdout_region_ = {}]

clear_progress(g) ==
    LET g1 == reset_next_active_region([g EXCEPT !.tree_ = {}])
    IN IF in_holdout_mode(g1) THEN clear_holdouts(g1) ELSE g1

jump(g, region) == progress(clear_progress(g), region)

\* The regions a caller jumps to: the base at each site.
JumpRegions == {variant_region(site) : site \in Sites}

ClearProgress ==
    /\ generator.stage = "built"
    /\ gen_call.outcome # "HaplotypeOverflow"
    /\ generator' = clear_progress(generator)
    /\ gen_call' = [gen_call EXCEPT !.op = "clear_progress"]
    /\ UNCHANGED nongen

Jump(region) ==
    /\ generator.stage = "built"
    /\ gen_call.outcome # "HaplotypeOverflow"
    /\ generator' = jump(generator, region)
    /\ gen_call' = [gen_call EXCEPT !.op = "jump"]
    /\ UNCHANGED nongen

JumpInit == PacketInit

JumpNext ==
    \/ Generate(MaxJumpCalls)
    \/ PeekNextActiveRegion
    \/ ClearProgress
    \/ \E region \in JumpRegions : Jump(region)

JumpSpec == JumpInit /\ [][JumpNext]_vars

(***************************************************************************)
(* Properties of the alleles in holdout frames.                            *)
(***************************************************************************)
\* The alleles a step takes out of the holdout stack.
LeftHoldout == HeldOut(generator) \ HeldOut(generator')

\* The last call was a generate call that reported the end of the stream.
EndOfStreamReported == gen_call.op = "generate" /\ TerminalPacketReturned

\* C37: the generator does not report the end of the stream while a holdout frame
\* holds alleles, and no operation (generate, clear_progress, jump) takes a frame
\* off the stack without putting its alleles back among the remaining alleles.
C37_HeldOutAllelesRestored ==
    /\ [](EndOfStreamReported => HeldOut(generator) = {})
    /\ [][LeftHoldout \subseteq generator'.alleles_]_vars


(***************************************************************************)
(* Properties of a cleared assembler.                                      *)
(***************************************************************************)
\* C38: after clear() the assembler is in the state of a newly constructed one of
\* the same k, reference_head_position_ included, from which the begin positions of
\* the variants are counted: the calls that follow give what they give on a new
\* assembler, also when clear() follows a prune that removed head flank k-mers.
C38_ClearedIsNew == asm_call.op = "clear" => assembler = Assembler(assembler.k_)


(***************************************************************************)
(* Two ReadManager objects and swap.                                       *)
(***************************************************************************)
MaxSwaps == 2

\* ReadManager::ReadManager(read_file_paths, max_open_files) as an object: files of
\* pairwise distinct sizes, of which open_initial_files opens the smallest.
ReadManager(read_file_paths, max_open_files) ==
    LET num_files_to_open == Min(max_open_files, Cardinality(read_file_paths))
        opened == {p \in read_file_paths :
                      Cardinality({q \in read_file_paths : FileSizeCompare(q, p)})
                          < num_files_to_open}
        with_sample == {s \in Samples : \E p \in read_file_paths : s \in ReaderSamples(p)}
    IN [max_open_files_ |-> max_open_files,
        num_files_ |-> Cardinality(read_file_paths),
        closed_readers_ |-> read_file_paths \ opened,
        open_readers_ |-> CHOOSE o \in Orders(opened) :
                              \A i, j \in DOMAIN o : i < j => FileSizeCompare(o[i], o[j]),
        reader_paths_containing_sample_ |->
            [s \in with_sample |-> {p \in read_file_paths : s \in ReaderSamples(p)}],
        possible_regions_in_readers_ |-> [p \in read_file_paths |-> mapped_regions(p)],
        samples_ |-> SetToSortedSeq(with_sample)]

\* swap(lhs, rhs) of two different objects: the five containers change places.
swap(lhs, rhs) ==
    [lhs |-> [lhs EXCEPT
                 !.closed_readers_ = rhs.closed_readers_,
                 !.open_readers_ = rhs.open_readers_,
                 !.reader_paths_containing_sample_ = rhs.reader_paths_containing_sample_,
                 !.possible_regions_in_readers_ = rhs.possible_regions_in_readers_,
                 !.samples_ = rhs.samples_],
     rhs |-> [rhs EXCEPT
                 !.closed_readers_ = lhs.closed_readers_,
                 !.open_readers_ = lhs.open_readers_,
                 !.reader_paths_containing_sample_ = lhs.reader_paths_containing_sample_,
                 !.possible_regions_in_readers_ = lhs.possible_regions_in_readers_,
                 !.samples_ = lhs.samples_]]

\* The queries on a ReadManager object. has_reads goes over the open readers when
\* all_readers_are_open(), and else over the readers of the paths that hold a
\* sample of the query, which the slow path opens batch after batch.
manager_all_readers_are_open(rm) == rm.num_files_ <= rm.max_open_files_

manager_num_files(rm) == Cardinality(rm.closed_readers_) + Len(rm.open_readers_)

manager_reader_paths_containing_samples(rm, samples) ==
    UNION {rm.reader_paths_containing_sample_[s] :
              s \in samples \cap DOMAIN rm.reader_paths_containing_sample_}

manager_has_reads(rm, samples, region) ==
    IF manager_all_readers_are_open(rm)
    THEN \E p \in Range(rm.open_readers_) : ReaderHasReads(p, samples, region)
    ELSE \E p \in manager_reader_paths_containing_samples(rm, samples) :
            ReaderHasReads(p, samples, region)

\* The file sets and the budgets of the two managers.
SwapManagers ==
    {ReadManager(read_file_paths, max_open_files) :
        read_file_paths \in (SUBSET Paths) \ {{}}, max_open_files \in 1..MaxBudget}

SwapInit ==
    /\ file_size = [p \in Paths |-> p]
    /\ max_open_files_ = NumPaths
    /\ open_readers_ = [p \in Paths |-> p]
    /\ closed_readers_ = {}
    /\ mutex_ = NoThread
    /\ ThreadInit
    /\ AssemblerIdle
    /\ GeneratorIdle
    /\ swap_call \in {[n |-> 0, lhs |-> lhs, rhs |-> rhs, before |-> <<lhs, rhs>>] :
                         lhs \in SwapManagers, rhs \in SwapManagers}

Swap ==
    /\ swap_call.n < MaxSwaps
    /\ \E r \in {swap(swap_call.lhs, swap_call.rhs)} :
          swap_call' = [n |-> swap_call.n + 1, lhs |-> r.lhs, rhs |-> r.rhs,
                        before |-> <<swap_call.lhs, swap_call.rhs>>]
    /\ UNCHANGED <<rmvars, assembler, asm_call, extraction, genvars>>

SwapNext == Swap

SwapSpec == SwapInit /\ [][SwapNext]_vars

(***************************************************************************)
(* Properties of swap.                                                     *)
(***************************************************************************)
\* The answers of a manager to the queries num_files, samples and has_reads.
Answers(rm) ==
    [num_files |-> manager_num_files(rm),
     samples |-> rm.samples_,
     has_reads |-> [a \in QuerySamples \X QueryRegions |-> manager_has_reads(rm, a[1], a[2])]]

\* The budget and the partition of a manager.
BudgetAndPartition(rm) ==
    /\ Len(rm.open_readers_) <= rm.max_open_files_
    /\ Range(rm.open_readers_) \cap rm.closed_readers_ = {}
    /\ manager_num_files(rm) = rm.num_files_

\* C39: after swap(a, b) each manager answers every query as the other did before
\* the swap, and the budget and the partition hold for both, whatever the file
\* counts and the budgets of the two.
C39_SwapExchangesManagers ==
    swap_call.n > 0 =>
        /\ Answers(swap_call.lhs) = Answers(swap_call.before[2])
        /\ Answers(swap_call.rhs) = Answers(swap_call.before[1])
        /\ BudgetAndPartition(swap_call.lhs)
        /\ BudgetAndPartition(swap_call.rhs)


(***************************************************************************)
(* Properties of the limits a builder hands to the generator.              *)
(***************************************************************************)
\* C40: whatever setters were called on the builder, in whatever order and with
\* whatever values, the built generator has target <= holdout <= overflow.
C40_BuiltLimitsOrdered == generator.stage = "built" => LimitsOrdered

====
